---- MODULE Spec2Model ----
(***************************************************************************)
(* The bounded-integer circuit builder of cairo_gen/circuit.py             *)
(* (class BoundedIntCircuit) as a state machine.  One action per builder   *)
(* call of the public surface: input, constant, register_constant, add,    *)
(* sub, mul, div_rem (also through div and mod), reduce and output.        *)
(*                                                                         *)
(* Python objects are modelled by identity: every BoundedIntVar ever       *)
(* constructed sits in circuit.objs at the index of its creation, and      *)
(* operations, inputs, outputs and the name-keyed table refer to           *)
(* variables by that index.  A variable that is dropped from the           *)
(* name-keyed table is still referenced by the operations that use it.     *)
(*                                                                         *)
(* compile() is modelled in both modes, the emitted text as a record of    *)
(* its parts (type and impl declarations, constants, parameters, body      *)
(* statements, return statement).  The transform generators of             *)
(* cairo_gen/circuits (NttCircuitGenerator, InttCircuitGenerator) are      *)
(* modelled with their constructor, generate() and simulate(), over a      *)
(* scaled modulus.                                                         *)
(***************************************************************************)
EXTENDS Integers, Sequences, FiniteSets, TLC

VARIABLES
    circuit,    \* the BoundedIntCircuit object (self)
    handles,    \* the variables the caller holds: every value a call returned
    last,       \* the latest builder call: its name, outcome and return value
    ncalls,     \* number of builder calls made so far
    emitted,    \* per mode, the text compile returned for the circuit as it is
    gen         \* the transform generator that owns the circuit, if any

vars == <<circuit, handles, last, ncalls, emitted, gen>>

(***************************************************************************)
(* Bounds of the model.                                                    *)
(***************************************************************************)
MaxCalls == 3

\* (modulus, max_bound) pairs a circuit is constructed with.  The second
\* configuration has modulus - 1 above the auto-reduce threshold.
Configs == { <<5, 8>>, <<5, 3>> }

\* Arguments of input(): names (one of them looks like a generated
\* temporary, one like a default constant name) and intervals min <= max.
InputNames == { "a", "tmp_0", "const_5" }
InputBounds == { <<0, 4>>, <<-4, 4>>, <<0, 1>> }

\* Arguments of constant() and register_constant().
None == "None"
ConstValues == { 0, 3 }
ConstNames == { None, "a" }
RegValues == { 3, 5 }
RegNames == { "Q", "K" }

\* Integer divisors of div_rem(), explicit moduli of reduce() (0 stands
\* for the argument left out), names given to output().
IntDivisors == { 0, 2 }
ReduceModuli == { 0, 3 }
OutputNames == { None, "a", "tmp_0" }

(***************************************************************************)
(* Integer helpers (Python built-ins).                                     *)
(***************************************************************************)
abs(x) == IF x < 0 THEN -x ELSE x

max(S) == CHOOSE x \in S : \A y \in S : y <= x

min(S) == CHOOSE x \in S : \A y \in S : x <= y

\* Python's //, floor division, for a non-zero divisor of either sign.
FloorDiv(a, b) == IF b > 0 THEN a \div b ELSE (-a) \div (-b)

\* dict assignment d[k] = v
Put(d, k, v) == (k :> v) @@ d

\* del d[k]
Del(d, k) == [x \in DOMAIN d \ {k} |-> d[x]]

(***************************************************************************)
(* BoundedIntCircuit.__init__.  MAX_BOUND_LIMIT is 2**300; every           *)
(* threshold of Configs is below it, so min(max_bound, MAX_BOUND_LIMIT)    *)
(* is max_bound.                                                           *)
(***************************************************************************)
NewCircuit(modulus, max_bound) ==
    [ modulus                |-> modulus,
      max_bound              |-> max_bound,
      auto_reduced_count     |-> 0,
      objs                   |-> <<>>,
      variables              |-> [n \in {} |-> 0],
      operations             |-> <<>>,
      inputs                 |-> <<>>,
      outputs                |-> <<>>,
      constants              |-> [v \in {} |-> ""],
      used_regular_constants |-> {},
      used_nz_constants      |-> {},
      bound_types            |-> {},
      _var_counter           |-> 0 ]

\* BoundedIntVar.bounds
bounds(c, v) == <<c.objs[v].min_bound, c.objs[v].max_bound>>

\* A constructed BoundedIntVar; source is 0 for None, else the index of
\* the producing operation in the trace.
BoundedIntVar(name, min_bound, max_bound, source) ==
    [ name |-> name, min_bound |-> min_bound, max_bound |-> max_bound,
      source |-> source ]

\* A constructed Operation.  The extra dict is flattened: q_bounds is <<>>,
\* modulus is 0 and linked_to is "" when the key is absent.
Operation(op_type, operands, result, q_bounds, modulus, linked_to) ==
    [ op_type |-> op_type, operands |-> operands, result |-> result,
      q_bounds |-> q_bounds, modulus |-> modulus, linked_to |-> linked_to ]

(***************************************************************************)
(* Builder internals.  Each takes the circuit c and returns the circuit    *)
(* after the call together with the returned value:  [c |-> ..., ret |-> ] *)
(***************************************************************************)
_next_var_name(c) ==
    [ c   |-> [c EXCEPT !._var_counter = @ + 1],
      ret |-> "tmp_" \o ToString(c._var_counter) ]

\* Mutation: the new operation is put at the head of the trace.
_create_op_at_head(c, op_type, operands, min_val, max_val, q_bounds, modulus, linked_to) ==
    LET n      == _next_var_name(c)
        id     == Len(c.objs) + 1
        opi    == Len(c.operations) + 1
        result == BoundedIntVar(n.ret, min_val, max_val, opi)
        op     == Operation(op_type, operands, id, q_bounds, modulus, linked_to)
    IN  [ c   |-> [n.c EXCEPT !.objs = Append(@, result),
                              !.variables = Put(@, n.ret, id),
                              !.operations = <<op>> \o @,
                              !.bound_types = @ \cup {<<min_val, max_val>>}],
          ret |-> id ]

_create_op(c, op_type, operands, min_val, max_val, q_bounds, modulus, linked_to) ==
    LET n      == _next_var_name(c)
        id     == Len(c.objs) + 1
        opi    == Len(c.operations) + 1
        result == BoundedIntVar(n.ret, min_val, max_val, opi)
        op     == Operation(op_type, operands, id, q_bounds, modulus, linked_to)
    IN  [ c   |-> [n.c EXCEPT !.objs = Append(@, result),
                              !.variables = Put(@, n.ret, id),
                              !.operations = Append(@, op),
                              !.bound_types = @ \cup {<<min_val, max_val>>}],
          ret |-> id ]

register_constant(c, value, name) ==
    [c EXCEPT !.constants = Put(@, value, name)]

constant(c, value, name) ==
    LET nm == IF name = None THEN "const_" \o ToString(value) ELSE name
        id == Len(c.objs) + 1
    IN  IF nm \in DOMAIN c.variables
        THEN [ c |-> c, ret |-> c.variables[nm] ]
        ELSE [ c   |-> [c EXCEPT !.objs = Append(@, BoundedIntVar(nm, value, value, 0)),
                                 !.variables = Put(@, nm, id)],
               ret |-> id ]

\* Interval of a + b
AddBounds(a, b) == << a[1] + b[1], a[2] + b[2] >>

\* Interval of a - b
SubBounds(a, b) == << a[1] - b[2], a[2] - b[1] >>

\* Interval of a * b: the four corner products
MulCorners(a, b) == { a[1] * b[1], a[1] * b[2], a[2] * b[1], a[2] * b[2] }

\* Mutation: only the two like-signed corners are considered.
MulBoundsTwoCorners(a, b) ==
    << min({ a[1] * b[1], a[2] * b[2] }), max({ a[1] * b[1], a[2] * b[2] }) >>

MulBounds(a, b) == << min(MulCorners(a, b)), max(MulCorners(a, b)) >>

_add_raw(c, a, b) ==
    LET r == AddBounds(bounds(c, a), bounds(c, b))
    IN  _create_op(c, "ADD", <<a, b>>, r[1], r[2], <<>>, 0, "")

reduce(c, var, modulus_arg) ==
    LET modulus       == IF modulus_arg = 0 THEN c.modulus ELSE modulus_arg
        negative      == c.objs[var].min_bound < 0
        c1            == IF modulus \notin DOMAIN c.constants
                         THEN register_constant(c, modulus, "Q") ELSE c
        copies_needed == FloorDiv(-c.objs[var].min_bound + modulus - 1, modulus)
        shift_amount  == copies_needed * modulus
        shift_const   == constant(c1, shift_amount, None)
        c2            == IF shift_amount \notin DOMAIN shift_const.c.constants
                         THEN register_constant(shift_const.c, shift_amount,
                                  "SHIFT_" \o ToString(copies_needed) \o "Q")
                         ELSE shift_const.c
        shifted       == _add_raw(c2, var, shift_const.ret)
        c3            == IF negative THEN shifted.c ELSE c
        v             == IF negative THEN shifted.ret ELSE var
        q_max         == FloorDiv(c3.objs[v].max_bound, modulus)
        q_min         == FloorDiv(c3.objs[v].min_bound, modulus)
        c4            == [c3 EXCEPT !.bound_types = @ \cup {<<q_min, q_max>>}]
    IN  _create_op(c4, "REDUCE", <<v>>, 0, modulus - 1, <<q_min, q_max>>, modulus, "")

\* Mutation: the threshold test looks at the upper bound alone.
_maybe_auto_reduce_upper_only(c, var) ==
    IF c.objs[var].max_bound > c.max_bound
    THEN LET c0 == [c EXCEPT !.auto_reduced_count = @ + 1]
             p1 == reduce(c0, var, 0)
             p2 == reduce(p1.c, var, 0)
         IN  reduce(p2.c, var, 0)
    ELSE [ c |-> c, ret |-> var ]

\* The message printed on an auto-reduce formats var.reduce() twice, and
\* each is a call of reduce on the circuit, before the reduce whose result
\* is returned.
_maybe_auto_reduce(c, var) ==
    IF c.objs[var].max_bound > c.max_bound \/ c.objs[var].min_bound < -c.max_bound
    THEN LET c0 == [c EXCEPT !.auto_reduced_count = @ + 1]
             p1 == reduce(c0, var, 0)
             p2 == reduce(p1.c, var, 0)
         IN  reduce(p2.c, var, 0)
    ELSE [ c |-> c, ret |-> var ]

add(c, a, b) ==
    LET r      == AddBounds(bounds(c, a), bounds(c, b))
        result == _create_op(c, "ADD", <<a, b>>, r[1], r[2], <<>>, 0, "")
    IN  _maybe_auto_reduce(result.c, result.ret)

sub(c, a, b) ==
    LET r      == SubBounds(bounds(c, a), bounds(c, b))
        result == _create_op(c, "SUB", <<a, b>>, r[1], r[2], <<>>, 0, "")
    IN  _maybe_auto_reduce(result.c, result.ret)

mul(c, a, b) ==
    LET r      == MulBounds(bounds(c, a), bounds(c, b))
        result == _create_op(c, "MUL", <<a, b>>, r[1], r[2], <<>>, 0, "")
    IN  _maybe_auto_reduce(result.c, result.ret)

\* Mutation: the remainder bound is the divisor magnitude itself.
RemainderMaxOffByOne(b_min, b_max) == max({ abs(b_min), abs(b_max) })

\* Remainder bounds: [0, max(|b|) - 1]
RemainderMax(b_min, b_max) == max({ abs(b_min), abs(b_max) }) - 1

\* Outcome of div_rem: raised tells whether the call raised ValueError; c is
\* the circuit as the call left it; ret the pair (quotient, remainder).
div_rem(c, a, b_arg, is_int) ==
    LET k       == IF is_int THEN constant(c, b_arg, None)
                             ELSE [ c |-> c, ret |-> b_arg ]
        b       == k.ret
        corners == { FloorDiv(a_val, b_val) :
                        a_val \in { k.c.objs[a].min_bound, k.c.objs[a].max_bound },
                        b_val \in { k.c.objs[b].min_bound, k.c.objs[b].max_bound } \ {0} }
        q_min   == min(corners)
        q_max   == max(corners)
        r_max   == RemainderMax(k.c.objs[b].min_bound, k.c.objs[b].max_bound)
        c1      == [k.c EXCEPT !.bound_types = @ \cup {<<q_min, q_max>>}]
        quotient  == _create_op(c1, "DIV", <<a, b>>, q_min, q_max,
                                <<q_min, q_max>>, 0, "")
        remainder == _create_op(quotient.c, "REM", <<a, b>>, 0, r_max,
                                <<q_min, q_max>>, 0,
                                quotient.c.objs[quotient.ret].name)
    IN  IF corners = {}
        THEN [ raised |-> TRUE, c |-> k.c, ret |-> <<>> ]
        ELSE [ raised |-> FALSE, c |-> remainder.c,
               ret |-> <<quotient.ret, remainder.ret>> ]

output(c, var, name) ==
    LET old_name == c.objs[var].name
        renamed  == [c EXCEPT
                       !.objs[var].name = name,
                       !.variables = Put(IF old_name \in DOMAIN @
                                         THEN Del(@, old_name) ELSE @, name, var)]
        c1       == IF name # None /\ name # old_name THEN renamed ELSE c
    IN  [c1 EXCEPT !.outputs = Append(@, var)]

(***************************************************************************)
(* Magnitudes.  The model checker's integers are 32 bits wide and the      *)
(* widths of the code are 2**250 and more, so the model works at a reduced *)
(* scale that keeps the order and the ratios of the code's numbers:        *)
(*     modulus  <  DefaultMaxBound  <  limit,   limit = 4 * DefaultMaxBound *)
(* limit is the 2**252 of _validate_felt252_mode, DefaultMaxBound the      *)
(* 2**250 that __init__ takes for max_bound when the caller gives none.    *)
(***************************************************************************)
limit == 4194304

DefaultMaxBound == 1048576

(***************************************************************************)
(* Emission.  The emitted source text is modelled by its parts in the      *)
(* order they are written: every declaration and every statement is a      *)
(* record of the strings the code formats into the line.                   *)
(***************************************************************************)
\* The sequence 1, 2, ..., n
Indices(n) == [i \in 1..n |-> i]

\* sorted() of a set of integers, ascending
RECURSIVE sorted(_)
sorted(S) ==
    IF S = {} THEN <<>>
    ELSE <<min(S)>> \o sorted(S \ {min(S)})

\* sorted() of a set of (min, max) tuples, ascending
RECURSIVE sorted_pairs(_)
sorted_pairs(S) ==
    IF S = {} THEN <<>>
    ELSE LET m == CHOOSE x \in S : \A y \in S \ {x} :
                      x[1] < y[1] \/ (x[1] = y[1] /\ x[2] < y[2])
         IN  <<m>> \o sorted_pairs(S \ {m})

\* The name reduce() registers for a shift of k copies of the modulus.
ShiftName(k) == "SHIFT_" \o ToString(k) \o "Q"

\* self.constants[value].startswith("SHIFT_"): the names of the registry
\* are those given to register_constant by the caller, "Q", and the shift
\* names, which reduce() registers for a value of k copies of its modulus.
startswith_SHIFT(c, value) ==
    \E m \in { c.modulus } \cup (ReduceModuli \ { 0 }) :
        c.constants[value] = ShiftName(FloorDiv(value, m))

\* str.lower() of the name registered for value
lower(c, value) ==
    LET name == c.constants[value]
    IN  IF startswith_SHIFT(c, value)
        THEN LET k == CHOOSE k \in 0..abs(value) : name = ShiftName(k)
             IN  "shift_" \o ToString(k) \o "q"
        ELSE CASE name = "Q" -> "q"
               [] name = "K" -> "k"
               [] OTHER      -> name

\* str(x) with the 'n' prefix type_name puts for a negative bound
n_str(x) == IF x < 0 THEN "n" \o ToString(-x) ELSE ToString(x)

type_name(min_b, max_b, modulus, constants) ==
    IF min_b = max_b /\ min_b \in DOMAIN constants
    THEN constants[min_b] \o "Const"
    ELSE IF min_b = 0 /\ max_b = modulus - 1
         THEN "Zq"
         ELSE "BInt_" \o n_str(min_b) \o "_" \o n_str(max_b)

_type_name(c, b) == type_name(b[1], b[2], c.modulus, c.constants)

\* str() of a bounds tuple
tuple_str(b) == "(" \o ToString(b[1]) \o ", " \o ToString(b[2]) \o ")"

_generate_types(c) ==
    LET bt == sorted_pairs(c.bound_types)
        ks == sorted(DOMAIN c.constants)
    IN  [ i \in 1..Len(bt) |->
            [ name |-> _type_name(c, bt[i]),
              is   |-> "BoundedInt<" \o ToString(bt[i][1]) \o ", "
                          \o ToString(bt[i][2]) \o ">" ] ]
        \o
        [ i \in 1..Len(ks) |->
            [ name |-> c.constants[ks[i]] \o "Const",
              is   |-> "UnitInt<" \o ToString(ks[i]) \o ">" ] ]

\* The modulus a REDUCE works with: op.extra.get("modulus", self.modulus)
op_modulus(c, op) == IF op.modulus = 0 THEN c.modulus ELSE op.modulus

_impl_key(c, i) ==
    LET op == c.operations[i]
    IN  CASE op.op_type \in { "ADD", "SUB", "MUL" } ->
               op.op_type \o "_" \o tuple_str(bounds(c, op.operands[1]))
                          \o "_" \o tuple_str(bounds(c, op.operands[2]))
          [] op.op_type = "REDUCE" ->
               "REDUCE_" \o tuple_str(bounds(c, op.operands[1]))
                         \o "_" \o ToString(op_modulus(c, op))
          [] op.op_type \in { "DIV", "REM" } ->
               "DIVREM_" \o tuple_str(bounds(c, op.operands[1]))
                         \o "_" \o tuple_str(bounds(c, op.operands[2]))

\* _gen_add_helper, _gen_sub_helper, _gen_mul_helper
_gen_arith_helper(c, op, prefix, trait) ==
    LET a_type == _type_name(c, bounds(c, op.operands[1]))
        b_type == _type_name(c, bounds(c, op.operands[2]))
    IN  [ name   |-> prefix \o "_" \o a_type \o "_" \o b_type,
          of     |-> trait \o "<" \o a_type \o ", " \o b_type \o ">",
          Result |-> _type_name(c, bounds(c, op.result)),
          DivT   |-> "", RemT |-> "" ]

\* == on two BoundedIntVar objects (a dataclass): the same object, or two
\* objects equal field by field.  Two distinct results of operations are
\* told apart by their source.
var_eq(c, x, y) ==
    \/ x = y
    \/ /\ c.objs[x].name = c.objs[y].name
       /\ bounds(c, x) = bounds(c, y)
       /\ c.objs[x].source = 0
       /\ c.objs[y].source = 0

\* The first REM of the trace with the operands of op and a linked_to
\* entry; 0 when there is none.
linked_rem(c, op) ==
    LET found == { j \in 1..Len(c.operations) :
                     /\ c.operations[j].op_type = "REM"
                     /\ Len(c.operations[j].operands) = 2
                     /\ var_eq(c, c.operations[j].operands[1], op.operands[1])
                     /\ var_eq(c, c.operations[j].operands[2], op.operands[2])
                     /\ c.operations[j].linked_to # "" }
    IN  IF found = {} THEN 0 ELSE min(found)

\* The divisor of a DIV or REM is a singleton registered as a constant.
registered_divisor(c, b) ==
    c.objs[b].min_bound = c.objs[b].max_bound
        /\ c.objs[b].min_bound \in DOMAIN c.constants

_gen_divrem_helper(c, op) ==
    LET a      == op.operands[1]
        a_type == _type_name(c, bounds(c, a))
        q_type == _type_name(c, op.q_bounds)
        b_type ==
            IF op.op_type = "REDUCE"
            THEN IF op_modulus(c, op) \in DOMAIN c.constants
                 THEN c.constants[op_modulus(c, op)] \o "Const"
                 ELSE "UnitInt<" \o ToString(op_modulus(c, op)) \o ">"
            ELSE IF registered_divisor(c, op.operands[2])
                 THEN c.constants[c.objs[op.operands[2]].min_bound] \o "Const"
                 ELSE _type_name(c, bounds(c, op.operands[2]))
        rem    == linked_rem(c, op)
        r_type ==
            IF op.op_type = "REDUCE"
            THEN _type_name(c, bounds(c, op.result))
            ELSE IF rem = 0 THEN q_type
                 ELSE _type_name(c, bounds(c, c.operations[rem].result))
    IN  [ name   |-> "DivRem_" \o a_type \o "_" \o b_type,
          of     |-> "DivRemHelper<" \o a_type \o ", " \o b_type \o ">",
          Result |-> "",
          DivT   |-> q_type, RemT |-> r_type ]

\* A loop that skips nothing: every operation gets its declaration.
first_of_key_no_seen(c) == Indices(Len(c.operations))

\* The operations whose key no earlier operation has: the ones the loop of
\* _generate_helper_impls does not skip.
first_of_key(c) ==
    SelectSeq(Indices(Len(c.operations)),
              LAMBDA i : \A j \in 1..(i - 1) : _impl_key(c, j) # _impl_key(c, i))

_generate_helper_impls(c) ==
    LET emitting == SelectSeq(first_of_key(c),
                              LAMBDA i : c.operations[i].op_type # "REM")
    IN  [ k \in 1..Len(emitting) |->
            LET op == c.operations[emitting[k]]
            IN  CASE op.op_type = "ADD" -> _gen_arith_helper(c, op, "Add", "AddHelper")
                  [] op.op_type = "SUB" -> _gen_arith_helper(c, op, "Sub", "SubHelper")
                  [] op.op_type = "MUL" -> _gen_arith_helper(c, op, "Mul", "MulHelper")
                  [] op.op_type \in { "REDUCE", "DIV" } -> _gen_divrem_helper(c, op) ]

\* A line of the function body: the names the statement binds, their
\* declared types, the function called and its arguments.
Statement(binds, types, fn, args) ==
    [ binds |-> binds, types |-> types, fn |-> fn, args |-> args ]

\* The empty string _generate_op returns for a linked REM.
EmptyLine == Statement(<<>>, <<>>, "", <<>>)

\* An operand of ADD/SUB/MUL is a singleton registered as a constant.
is_registered(c, v) ==
    c.objs[v].min_bound = c.objs[v].max_bound
        /\ c.objs[v].min_bound \in DOMAIN c.constants

\* The name _generate_op writes for an operand of ADD/SUB/MUL.
operand_name(c, v) ==
    IF is_registered(c, v)
    THEN lower(c, c.objs[v].min_bound) \o "_const"
    ELSE c.objs[v].name

\* The nz_ name of the divisor of a DIV or REM.
divisor_name(c, b) ==
    IF registered_divisor(c, b)
    THEN "nz_" \o lower(c, c.objs[b].min_bound)
    ELSE "nz_" \o c.objs[b].name

\* _generate_op: the circuit with the usage sets updated, and the line.
_generate_op(c, i) ==
    LET op     == c.operations[i]
        r      == c.objs[op.result].name
        r_type == _type_name(c, bounds(c, op.result))
    IN  CASE op.op_type \in { "ADD", "SUB", "MUL" } ->
               LET a    == op.operands[1]
                   b    == op.operands[2]
                   used == { c.objs[v].min_bound : v \in { w \in {a, b} : is_registered(c, w) } }
                   fn   == CASE op.op_type = "ADD" -> "add"
                             [] op.op_type = "SUB" -> "sub"
                             [] op.op_type = "MUL" -> "mul"
               IN  [ c   |-> [c EXCEPT !.used_regular_constants = @ \cup used],
                     ret |-> Statement(<<r>>, <<r_type>>, fn,
                                       <<operand_name(c, a), operand_name(c, b)>>) ]
          [] op.op_type = "REDUCE" ->
               LET modulus == op_modulus(c, op)
                   known   == modulus \in DOMAIN c.constants
                   nz_name == IF known THEN "nz_" \o lower(c, modulus)
                              ELSE "nz_" \o ToString(modulus)
               IN  [ c   |-> IF known
                             THEN [c EXCEPT !.used_nz_constants = @ \cup {modulus}]
                             ELSE c,
                     ret |-> Statement(<<"_" \o r \o "_q", r>>, <<"_", r_type>>,
                                       "bounded_int_div_rem",
                                       <<c.objs[op.operands[1]].name, nz_name>>) ]
          [] op.op_type = "DIV" ->
               LET a   == op.operands[1]
                   b   == op.operands[2]
                   rem == linked_rem(c, op)
                   rem_name == IF rem = 0 THEN "_" \o r \o "_rem"
                               ELSE c.objs[c.operations[rem].result].name
                   rem_type == IF rem = 0 THEN "_"
                               ELSE _type_name(c, bounds(c, c.operations[rem].result))
               IN  [ c   |-> IF registered_divisor(c, b)
                             THEN [c EXCEPT !.used_nz_constants =
                                                @ \cup {c.objs[b].min_bound}]
                             ELSE c,
                     ret |-> Statement(<<r, rem_name>>, <<r_type, rem_type>>,
                                       "bounded_int_div_rem",
                                       <<c.objs[a].name, divisor_name(c, b)>>) ]
          [] op.op_type = "REM" ->
               LET a == op.operands[1]
                   b == op.operands[2]
               IN  IF op.linked_to # ""
                   THEN [ c |-> c, ret |-> EmptyLine ]
                   ELSE [ c   |-> IF registered_divisor(c, b)
                                  THEN [c EXCEPT !.used_nz_constants =
                                                     @ \cup {c.objs[b].min_bound}]
                                  ELSE c,
                          ret |-> Statement(<<"_" \o r \o "_q", r>>, <<"_", r_type>>,
                                            "bounded_int_div_rem",
                                            <<c.objs[a].name, divisor_name(c, b)>>) ]

\* The loop of _generate_function over the first n operations.
body_lines(c, n) ==
    LET line == [ i \in 1..n |-> _generate_op(c, i) ]
        kept == SelectSeq(Indices(n), LAMBDA i : line[i].ret # EmptyLine)
    IN  [ c   |-> [c EXCEPT
                     !.used_regular_constants =
                         @ \cup UNION { line[i].c.used_regular_constants : i \in 1..n },
                     !.used_nz_constants =
                         @ \cup UNION { line[i].c.used_nz_constants : i \in 1..n }],
          ret |-> [ k \in 1..Len(kept) |-> line[kept[k]].ret ] ]

\* The return statement, shared by both modes: one output is returned
\* bare, any other number of outputs as a parenthesised tuple.
return_statement_reversed(c) ==
    [ tuple |-> Len(c.outputs) # 1,
      names |-> [ k \in 1..Len(c.outputs) |->
                    c.objs[c.outputs[Len(c.outputs) + 1 - k]].name ] ]

return_statement(c) ==
    [ tuple |-> Len(c.outputs) # 1,
      names |-> [ k \in 1..Len(c.outputs) |-> c.objs[c.outputs[k]].name ] ]

_generate_function(c) ==
    LET body == body_lines(c, Len(c.operations))
    IN  [ c   |-> body.c,
          ret |-> [ params  |-> [ k \in 1..Len(c.inputs) |->
                                    << c.objs[c.inputs[k]].name,
                                       _type_name(c, bounds(c, c.inputs[k])) >> ],
                    returns |-> [ tuple |-> Len(c.outputs) # 1,
                                  names |-> [ k \in 1..Len(c.outputs) |->
                                      _type_name(c, bounds(c, c.outputs[k])) ] ],
                    body    |-> body.ret,
                    result  |-> return_statement(c) ] ]

\* A variant that declares both forms of a constant used in either form.
_generate_constants_either_form(c) ==
    LET ks == sorted(DOMAIN c.constants)
        used == c.used_regular_constants \cup c.used_nz_constants
        regular(v) == IF v \in used
                      THEN << [ name |-> lower(c, v) \o "_const",
                                type |-> c.constants[v] \o "Const",
                                value |-> v ] >>
                      ELSE <<>>
        nz(v)      == IF v \in used
                      THEN << [ name |-> "nz_" \o lower(c, v),
                                type |-> "NonZero<" \o c.constants[v] \o "Const>",
                                value |-> v ] >>
                      ELSE <<>>
        RECURSIVE decls(_)
        decls(k) == IF k = 0 THEN <<>>
                    ELSE decls(k - 1) \o regular(ks[k]) \o nz(ks[k])
    IN  decls(Len(ks))

\* The two declarations of a registered constant, each only when used.
_generate_constants(c) ==
    LET ks == sorted(DOMAIN c.constants)
        regular(v) == IF v \in c.used_regular_constants
                      THEN << [ name |-> lower(c, v) \o "_const",
                                type |-> c.constants[v] \o "Const",
                                value |-> v ] >>
                      ELSE <<>>
        nz(v)      == IF v \in c.used_nz_constants
                      THEN << [ name |-> "nz_" \o lower(c, v),
                                type |-> "NonZero<" \o c.constants[v] \o "Const>",
                                value |-> v ] >>
                      ELSE <<>>
        RECURSIVE decls(_)
        decls(k) == IF k = 0 THEN <<>>
                    ELSE decls(k - 1) \o regular(ks[k]) \o nz(ks[k])
    IN  decls(Len(ks))

\* _compile_bounded: the function is generated first, the other parts
\* from the circuit it leaves.
\* The parts of the text, given the function (which is generated first
\* and leaves the circuit c1).
bounded_parts(c1, function_code) ==
    [ mode      |-> "bounded",
      types     |-> _generate_types(c1),
      impls     |-> _generate_helper_impls(c1),
      constants |-> _generate_constants(c1),
      function  |-> function_code ]

bounded_text(function_code) ==
    [ raised |-> FALSE,
      c      |-> function_code.c,
      ret    |-> bounded_parts(function_code.c, function_code.ret) ]

_compile_bounded(c) == bounded_text(_generate_function(c))

(***************************************************************************)
(* Field-native (felt252) mode.                                            *)
(***************************************************************************)
\* The variables of the name-keyed table: self.variables.values()
table_vars(c) == { c.variables[n] : n \in DOMAIN c.variables }

\* _validate_felt252_mode raises: TRUE when some variable of the table has
\* a bound magnitude of limit or more.
_validate_felt252_mode(c) ==
    \E v \in table_vars(c) :
        max({ abs(c.objs[v].min_bound), abs(c.objs[v].max_bound) }) >= limit

\* math.ceil(x / y) for y > 0
ceil_div(x, y) == FloorDiv(x + y - 1, y)

_compute_shift(c) ==
    LET min_bound == min({ c.objs[v].min_bound : v \in table_vars(c) })
    IN  IF min_bound >= 0 THEN 0
        ELSE ceil_div(abs(min_bound), c.modulus) * c.modulus

\* SHIFT, ShiftedT = BoundedInt<0, shifted_max> and DivT = BoundedInt<0, div_max>
_generate_felt252_constants(c) ==
    LET shift       == _compute_shift(c)
        max_bound   == max({ c.objs[v].max_bound : v \in table_vars(c) })
        shifted_max == shift + max_bound
    IN  [ SHIFT    |-> shift,
          ShiftedT |-> <<0, shifted_max>>,
          DivT     |-> <<0, FloorDiv(shifted_max, c.modulus)>> ]

_get_felt252_operand_name(c, v) ==
    IF c.objs[v].min_bound = c.objs[v].max_bound
          /\ c.objs[v].min_bound \in DOMAIN c.constants
    THEN c.constants[c.objs[v].min_bound]
    ELSE c.objs[v].name

\* A singleton whose value is registered under a SHIFT_ name.
is_shift_const(c, v) ==
    /\ c.objs[v].min_bound = c.objs[v].max_bound
    /\ c.objs[v].min_bound \in DOMAIN c.constants
    /\ startswith_SHIFT(c, c.objs[v].min_bound)

\* The operations the body loop of _generate_felt252_function emits a
\* statement for: no REDUCE, and no ADD with a SHIFT_ constant operand.
felt252_emitted(c, i) ==
    LET op == c.operations[i]
    IN  /\ op.op_type # "REDUCE"
        /\ op.op_type = "ADD" =>
              \A k \in 1..Len(op.operands) : ~is_shift_const(c, op.operands[k])

\* _generate_felt252_op; called for ADD, SUB and MUL (any other operation
\* raises, see unsupported_op).
_generate_felt252_op(c, i) ==
    LET op == c.operations[i]
    IN  [ name  |-> c.objs[op.result].name,
          op    |-> CASE op.op_type = "ADD" -> "+"
                      [] op.op_type = "SUB" -> "-"
                      [] op.op_type = "MUL" -> "*",
          left  |-> _get_felt252_operand_name(c, op.operands[1]),
          right |-> _get_felt252_operand_name(c, op.operands[2]) ]

\* _generate_felt252_op raises for an emitted operation of another type.
unsupported_op(c) ==
    \E i \in 1..Len(c.operations) :
        felt252_emitted(c, i) /\ c.operations[i].op_type \notin { "ADD", "SUB", "MUL" }

\* The name of the unreduced source of an output: beneath its REDUCE and,
\* when the REDUCE operand is a shift ADD, beneath that ADD.
src_name(c, out_var) ==
    LET out == c.objs[out_var]
    IN  IF out.source # 0 /\ c.operations[out.source].op_type = "REDUCE"
        THEN LET shifted_var == c.operations[out.source].operands[1]
                 shifted     == c.objs[shifted_var]
             IN  IF shifted.source # 0
                       /\ c.operations[shifted.source].op_type = "ADD"
                       /\ is_shift_const(c, c.operations[shifted.source].operands[2])
                 THEN c.objs[c.operations[shifted.source].operands[1]].name
                 ELSE shifted.name
        ELSE out.name

_generate_felt252_function(c) ==
    LET ks      == SelectSeq(sorted(DOMAIN c.constants),
                             LAMBDA v : ~startswith_SHIFT(c, v))
        kept    == SelectSeq(Indices(Len(c.operations)),
                             LAMBDA i : felt252_emitted(c, i))
    IN  [ params     |-> [ k \in 1..Len(c.inputs) |-> c.objs[c.inputs[k]].name ],
          returns    |-> [ tuple |-> Len(c.outputs) # 1, count |-> Len(c.outputs) ],
          bindings   |-> [ k \in 1..Len(ks) |->
                             [ name |-> c.constants[ks[k]], value |-> ks[k] ] ],
          body       |-> [ k \in 1..Len(kept) |-> _generate_felt252_op(c, kept[k]) ],
          reductions |-> [ k \in 1..Len(c.outputs) |->
                             [ name |-> c.objs[c.outputs[k]].name,
                               src  |-> src_name(c, c.outputs[k]) ] ],
          result     |-> return_statement(c) ]

_compile_felt252(c) ==
    [ mode      |-> "felt252",
      constants |-> _generate_felt252_constants(c),
      function  |-> _generate_felt252_function(c) ]

\* compile(mode): raised tells whether the call raised, c is the circuit
\* as the call left it, ret the source text.  In felt252 mode the call
\* raises when the legality check does, when min() or max() is taken over
\* an empty variable table, and when the body meets a DIV or a REM.
NoText == [ mode |-> "none" ]

compile(c, mode) ==
    CASE mode = "felt252" ->
           IF _validate_felt252_mode(c) \/ table_vars(c) = {} \/ unsupported_op(c)
           THEN [ raised |-> TRUE, c |-> c, ret |-> NoText ]
           ELSE [ raised |-> FALSE, c |-> c, ret |-> _compile_felt252(c) ]
      [] mode = "bounded" -> _compile_bounded(c)
      [] OTHER ->
           [ raised |-> TRUE, c |-> c, ret |-> NoText ]

(***************************************************************************)
(* The simulator: simulate() of the transform generators, which replays    *)
(* the trace of self.circuit on concrete integers.  env maps names to      *)
(* values; ok is FALSE once the replay has stopped on a missing name       *)
(* (KeyError) or a zero divisor (ZeroDivisionError).                       *)
(***************************************************************************)
\* Python's %, for a non-zero divisor of either sign
PyMod(a, b) == a - b * FloorDiv(a, b)

\* env after the inputs and the constants have been entered: an input name
\* holds the value of the last input of that name, and every name of the
\* table whose variable is a singleton of a registered value holds it.
sim_start(c, values) ==
    LET input_names == { c.objs[c.inputs[k]].name : k \in 1..Len(c.inputs) }
        const_names == { n \in DOMAIN c.variables :
                           /\ c.objs[c.variables[n]].min_bound
                                 = c.objs[c.variables[n]].max_bound
                           /\ c.objs[c.variables[n]].min_bound \in DOMAIN c.constants }
    IN  [ n \in input_names \cup const_names |->
            IF n \in const_names
            THEN c.objs[c.variables[n]].min_bound
            ELSE values[max({ k \in 1..Len(c.inputs) : c.objs[c.inputs[k]].name = n })] ]

\* The replay of the first n operations.
RECURSIVE sim_ops(_, _, _)
sim_ops(c, values, n) ==
    IF n = 0 THEN [ ok |-> TRUE, env |-> sim_start(c, values) ]
    ELSE LET prev == sim_ops(c, values, n - 1)
             op   == c.operations[n]
             r    == c.objs[op.result].name
             read == { c.objs[op.operands[k]].name : k \in 1..Len(op.operands) }
             a    == prev.env[c.objs[op.operands[1]].name]
             b    == prev.env[c.objs[op.operands[2]].name]
         IN  IF ~prev.ok THEN prev
             ELSE IF ~(read \subseteq DOMAIN prev.env)
                     \/ (op.op_type \in { "DIV", "REM" } /\ b = 0)
                  THEN [ ok |-> FALSE, env |-> prev.env ]
                  ELSE [ ok  |-> TRUE,
                         env |-> Put(prev.env, r,
                            CASE op.op_type = "ADD"    -> a + b
                              [] op.op_type = "SUB"    -> a - b
                              [] op.op_type = "MUL"    -> a * b
                              [] op.op_type = "REDUCE" -> a % op.modulus
                              [] op.op_type = "DIV"    -> FloorDiv(a, b)
                              [] op.op_type = "REM"    -> PyMod(a, b)) ]

\* simulate(values): raised for a wrong number of values and for a replay
\* that stops; ret is the list of output values.
simulate(c, values) ==
    LET run == sim_ops(c, values, Len(c.operations))
        out == { c.objs[c.outputs[k]].name : k \in 1..Len(c.outputs) }
    IN  IF Len(values) # Len(c.inputs) THEN [ raised |-> TRUE, ret |-> <<>> ]
        ELSE IF ~run.ok \/ ~(out \subseteq DOMAIN run.env)
             THEN [ raised |-> TRUE, ret |-> <<>> ]
             ELSE [ raised |-> FALSE,
                    ret |-> [ k \in 1..Len(c.outputs) |->
                                run.env[c.objs[c.outputs[k]].name] ] ]


(***************************************************************************)
(* The transform generators.  The root table and its inverses are data     *)
(* from outside the circuit code, for one fixed modulus.  At the scale of  *)
(* the model the modulus is 17, for which x^n + 1 splits for n <= 8:       *)
(* roots_dict_Zq(n) lists the roots of x^n + 1 in pairs (w, -w), the       *)
(* square of the pair at 2i and 2i + 1 being entry i of the table of n/2.  *)
(***************************************************************************)
Q == 17

\* The inverse of 2 modulo Q
I2 == 9

roots_dict_Zq(size) ==
    CASE size = 2 -> <<4, 13>>
      [] size = 4 -> <<2, 15, 8, 9>>
      [] size = 8 -> <<6, 11, 7, 10, 5, 12, 3, 14>>

inv_mod_q(v) == CHOOSE x \in 1..(Q - 1) : (x * v) % Q = 1

SQR1 == roots_dict_Zq(2)[1]

INV_SQR1 == inv_mod_q(SQR1)

\* Python's & on integers of either sign (two's complement, unbounded)
RECURSIVE BitAnd(_, _)
BitAnd(a, b) ==
    IF a = 0 \/ b = 0 THEN 0
    ELSE IF a = -1 THEN b
    ELSE IF b = -1 THEN a
    ELSE (a % 2) * (b % 2) + 2 * BitAnd(FloorDiv(a, 2), FloorDiv(b, 2))

\* The size test of both constructors: TRUE when __init__ raises.
invalid_size_no_upper(n) == BitAnd(n, n - 1) # 0 \/ n < 2

invalid_size(n) == BitAnd(n, n - 1) # 0 \/ n < 2 \/ n > 1024

\* input(name, min_val, max_val)
input(c, name, min_val, max_val) ==
    IF name \in DOMAIN c.variables
    THEN [ raised |-> TRUE, c |-> c, ret |-> 0 ]
    ELSE LET id == Len(c.objs) + 1
         IN  [ raised |-> FALSE,
               c   |-> [c EXCEPT
                          !.objs = Append(@, BoundedIntVar(name, min_val, max_val, 0)),
                          !.variables = Put(@, name, id),
                          !.inputs = Append(@, id),
                          !.bound_types = @ \cup {<<min_val, max_val>>}],
               ret |-> id ]

\* The loop over the even indices 2k, 2k + 2, ... of the table of one size:
\* the root, or its inverse, is registered unless its value already is.
RECURSIVE register_roots(_, _, _, _)
register_roots(c, size, k, inverse) ==
    IF 2 * k >= Len(roots_dict_Zq(size)) THEN c
    ELSE LET root_value == roots_dict_Zq(size)[2 * k + 1]
             value      == IF inverse THEN inv_mod_q(root_value) ELSE root_value
             name       == (IF inverse THEN "INV_W" ELSE "W")
                              \o ToString(size) \o "_" \o ToString(k)
         IN  register_roots(IF value \notin DOMAIN c.constants
                            THEN register_constant(c, value, name) ELSE c,
                            size, k + 1, inverse)

\* The loop over the sizes 4, 8, ..., n
RECURSIVE register_sizes(_, _, _, _)
register_sizes(c, size, n, inverse) ==
    IF size > n THEN c
    ELSE register_sizes(register_roots(c, size, 0, inverse), size * 2, n, inverse)

\* NttCircuitGenerator._register_constants
Ntt_register_constants(c, n) ==
    register_sizes(
        register_constant(register_constant(c, SQR1, "SQR1"), Q, "Q"),
        4, n, FALSE)

\* InttCircuitGenerator._register_constants
Intt_register_constants(c, n) ==
    register_sizes(
        register_constant(
            register_constant(register_constant(c, I2, "I2"),
                              INV_SQR1, "INV_SQR1"),
            Q, "Q"),
        4, n, TRUE)

\* A statement "v = <call>" followed by the statements Rest(v): the call is
\* evaluated once, and Rest sees its circuit v.c and its value v.ret.  The
\* test makes the call complete before the statements after it begin, which
\* is the order Python runs them in.
With(v, Rest(_)) == IF v = v THEN Rest(v) ELSE v

\* Mutation: the base case multiplies f0, not f1, by the twiddle.
_ntt_base_case_wrong_operand(c, f0, f1) ==
    With(constant(c, SQR1, "sqr1"),       LAMBDA sqr1 :
    With(mul(sqr1.c, f0, sqr1.ret),       LAMBDA f1_j :
    With(add(f1_j.c, f0, f1_j.ret),       LAMBDA even :
    With(sub(even.c, f0, f1_j.ret),       LAMBDA odd  :
        [ c |-> odd.c, ret |-> <<even.ret, odd.ret>> ]))))

_ntt_base_case(c, f0, f1) ==
    With(constant(c, SQR1, "sqr1"),       LAMBDA sqr1 :
    With(mul(sqr1.c, f1, sqr1.ret),       LAMBDA f1_j :
    With(add(f1_j.c, f0, f1_j.ret),       LAMBDA even :
    With(sub(even.c, f0, f1_j.ret),       LAMBDA odd  :
        [ c |-> odd.c, ret |-> <<even.ret, odd.ret>> ]))))

\* coeffs[::2], coeffs[1::2]
_split(coeffs) ==
    << [ k \in 1..((Len(coeffs) + 1) \div 2) |-> coeffs[2 * k - 1] ],
       [ k \in 1..(Len(coeffs) \div 2) |-> coeffs[2 * k] ] >>

\* The butterflies i, i + 1, ... of _merge_ntt
RECURSIVE _merge_ntt_from(_, _, _, _, _)
_merge_ntt_from(c, f0_ntt, f1_ntt, size, i) ==
    IF i >= Len(f0_ntt) THEN [ c |-> c, ret |-> <<>> ]
    ELSE With(constant(c, roots_dict_Zq(size)[2 * i + 1],
                       "w" \o ToString(size) \o "_" \o ToString(i)),
                                                            LAMBDA twiddle :
         With(mul(twiddle.c, f1_ntt[i + 1], twiddle.ret),   LAMBDA prod :
         With(add(prod.c, f0_ntt[i + 1], prod.ret),         LAMBDA even :
         With(sub(even.c, f0_ntt[i + 1], prod.ret),         LAMBDA odd :
         With(_merge_ntt_from(odd.c, f0_ntt, f1_ntt, size, i + 1),
                                                            LAMBDA rest :
             [ c |-> rest.c, ret |-> <<even.ret, odd.ret>> \o rest.ret ])))))

_merge_ntt(c, f0_ntt, f1_ntt, size) == _merge_ntt_from(c, f0_ntt, f1_ntt, size, 0)

RECURSIVE _ntt(_, _)
_ntt(c, f) ==
    IF Len(f) = 2 THEN _ntt_base_case(c, f[1], f[2])
    ELSE With(_ntt(c, _split(f)[1]),               LAMBDA f0_ntt :
         With(_ntt(f0_ntt.c, _split(f)[2]),        LAMBDA f1_ntt :
             _merge_ntt(f1_ntt.c, f0_ntt.ret, f1_ntt.ret, Len(f))))

\* Mutation: the base case leaves out the scaling of r1 by the inverse of 2.
_intt_base_case_unscaled(c, f0, f1) ==
    With(constant(c, I2, "i2"),                       LAMBDA i2 :
    With(constant(i2.c, INV_SQR1, "inv_sqr1"),        LAMBDA inv_sqr1 :
    With(add(inv_sqr1.c, f0, f1),                     LAMBDA sum_01 :
    With(sub(sum_01.c, f0, f1),                       LAMBDA diff_01 :
    With(mul(diff_01.c, i2.ret, sum_01.ret),          LAMBDA r0 :
    With(mul(r0.c, inv_sqr1.ret, diff_01.ret),        LAMBDA diff_scaled :
        [ c |-> diff_scaled.c, ret |-> <<r0.ret, diff_scaled.ret>> ]))))))

_intt_base_case(c, f0, f1) ==
    With(constant(c, I2, "i2"),                       LAMBDA i2 :
    With(constant(i2.c, INV_SQR1, "inv_sqr1"),        LAMBDA inv_sqr1 :
    With(add(inv_sqr1.c, f0, f1),                     LAMBDA sum_01 :
    With(sub(sum_01.c, f0, f1),                       LAMBDA diff_01 :
    With(mul(diff_01.c, i2.ret, sum_01.ret),          LAMBDA r0 :
    With(mul(r0.c, inv_sqr1.ret, diff_01.ret),        LAMBDA diff_scaled :
    With(mul(diff_scaled.c, i2.ret, diff_scaled.ret), LAMBDA r1 :
        [ c |-> r1.c, ret |-> <<r0.ret, r1.ret>> ])))))))

\* Interleaving of two coefficient lists
_merge(f0, f1) ==
    [ k \in 1..(2 * Len(f0)) |->
        IF k % 2 = 1 THEN f0[(k + 1) \div 2] ELSE f1[k \div 2] ]

\* The inverse butterflies i, i + 1, ... of _split_ntt; ret is (f0_ntt, f1_ntt)
RECURSIVE _split_ntt_from(_, _, _, _, _)
_split_ntt_from(c, f_ntt, size, i2, i) ==
    IF i >= Len(f_ntt) \div 2 THEN [ c |-> c, ret |-> << <<>>, <<>> >> ]
    ELSE LET even == f_ntt[2 * i + 1]
             odd  == f_ntt[2 * i + 2]
         IN
         With(constant(c, inv_mod_q(roots_dict_Zq(size)[2 * i + 1]),
                       "inv_w" \o ToString(size) \o "_" \o ToString(i)),
                                                            LAMBDA inv_twiddle :
         With(add(inv_twiddle.c, even, odd),                LAMBDA sum_eo :
         With(sub(sum_eo.c, even, odd),                     LAMBDA diff_eo :
         With(mul(diff_eo.c, i2, sum_eo.ret),               LAMBDA f0 :
         With(mul(f0.c, diff_eo.ret, inv_twiddle.ret),      LAMBDA diff_scaled :
         With(mul(diff_scaled.c, i2, diff_scaled.ret),      LAMBDA f1 :
         With(_split_ntt_from(f1.c, f_ntt, size, i2, i + 1), LAMBDA rest :
             [ c   |-> rest.c,
               ret |-> << <<f0.ret>> \o rest.ret[1],
                          <<f1.ret>> \o rest.ret[2] >> ])))))))

_split_ntt(c, f_ntt, size) ==
    With(constant(c, I2, "i2"), LAMBDA i2 :
        _split_ntt_from(i2.c, f_ntt, size, i2.ret, 0))

RECURSIVE _intt(_, _)
_intt(c, f_ntt) ==
    IF Len(f_ntt) = 2 THEN _intt_base_case(c, f_ntt[1], f_ntt[2])
    ELSE With(_split_ntt(c, f_ntt, Len(f_ntt)),    LAMBDA halves :
         With(_intt(halves.c, halves.ret[1]),      LAMBDA f0 :
         With(_intt(f0.c, halves.ret[2]),          LAMBDA f1 :
             [ c |-> f1.c, ret |-> _merge(f0.ret, f1.ret) ])))

\* The inputs f0, f1, ..., each in [0, Q - 1]
RECURSIVE make_inputs(_, _, _)
make_inputs(c, n, i) ==
    IF i >= n THEN [ c |-> c, ret |-> <<>> ]
    ELSE With(input(c, "f" \o ToString(i), 0, Q - 1), LAMBDA inp :
         With(make_inputs(inp.c, n, i + 1),           LAMBDA rest :
             [ c |-> rest.c, ret |-> <<inp.ret>> \o rest.ret ]))

\* Mutation: the transform results are marked as outputs as they are.
RECURSIVE mark_outputs_unreduced(_, _, _)
mark_outputs_unreduced(c, outputs, i) ==
    IF i >= Len(outputs) THEN c
    ELSE mark_outputs_unreduced(
             output(c, outputs[i + 1], "r" \o ToString(i)), outputs, i + 1)

\* self.circuit.output(out.reduce(), f"r{i}") for every transform result
RECURSIVE mark_outputs(_, _, _)
mark_outputs(c, outputs, i) ==
    IF i >= Len(outputs) THEN c
    ELSE With(reduce(c, outputs[i + 1], 0), LAMBDA reduced :
             mark_outputs(output(reduced.c, reduced.ret, "r" \o ToString(i)),
                          outputs, i + 1))

\* The circuit a generator is constructed with, and the one generate()
\* starts from.
GeneratorCircuit == NewCircuit(Q, DefaultMaxBound)

\* The trace generate() builds before it compiles.
trace(kind, n) ==
    With(make_inputs(IF kind = "ntt"
                     THEN Ntt_register_constants(GeneratorCircuit, n)
                     ELSE Intt_register_constants(GeneratorCircuit, n), n, 0),
                                                        LAMBDA inputs :
    With(IF kind = "ntt" THEN _ntt(inputs.c, inputs.ret)
         ELSE _intt(inputs.c, inputs.ret),              LAMBDA outputs :
        mark_outputs(outputs.c, outputs.ret, 0)))

\* generate(mode) of either generator
generate(kind, n, mode) == compile(trace(kind, n), mode)

(***************************************************************************)
(* The reference transform of the tests: the recursive NTT that reduces    *)
(* modulo Q at every butterfly.                                            *)
(***************************************************************************)
split(f) == _split(f)

merge_ntt(f0_ntt, f1_ntt) ==
    LET n == 2 * Len(f0_ntt)
        w == roots_dict_Zq(n)
    IN  [ k \in 1..n |->
            LET i == (k - 1) \div 2
            IN  IF k % 2 = 1
                THEN (f0_ntt[i + 1] + w[2 * i + 1] * f1_ntt[i + 1]) % Q
                ELSE (f0_ntt[i + 1] - w[2 * i + 1] * f1_ntt[i + 1]) % Q ]

RECURSIVE reference_ntt(_)
reference_ntt(f) ==
    IF Len(f) > 2
    THEN merge_ntt(reference_ntt(split(f)[1]), reference_ntt(split(f)[2]))
    ELSE << (f[1] + SQR1 * f[2]) % Q, (f[1] - SQR1 * f[2]) % Q >>

(***************************************************************************)
(* Initial state: a freshly constructed circuit.                           *)
(***************************************************************************)
NoCall == [ call |-> "none", raised |-> FALSE, ret |-> <<>>, args |-> <<>>,
            nops |-> 0, nobjs |-> 0 ]

Call(name, raised, ret, args) ==
    [ call |-> name, raised |-> raised, ret |-> ret, args |-> args,
      nops |-> Len(circuit.operations), nobjs |-> Len(circuit.objs) ]

\* The modes compile is called with.
Modes == { "bounded", "felt252" }

\* No text has been emitted for the circuit as it is.
NoneEmitted == [ m \in Modes |-> NoText ]

\* The circuit was constructed by the caller, not by a generator.
NoGenerator == [ kind |-> "none", n |-> 0 ]

Init ==
    /\ \E cfg \in Configs : circuit = NewCircuit(cfg[1], cfg[2])
    /\ handles = {}
    /\ last = NoCall
    /\ ncalls = 0
    /\ gen = NoGenerator
    /\ emitted = NoneEmitted

\* What every returning call does besides changing the circuit.
Returns(name, r, ret, args) ==
    /\ circuit' = r
    /\ handles' = handles \cup { ret[i] : i \in 1..Len(ret) }
    /\ last' = Call(name, FALSE, ret, args)
    /\ ncalls' = ncalls + 1
    /\ emitted' = NoneEmitted
    /\ gen' = gen

\* A call that raises: the circuit is left as the call had made it.
Raises(name, r, args) ==
    /\ circuit' = r
    /\ handles' = handles
    /\ last' = Call(name, TRUE, <<>>, args)
    /\ ncalls' = ncalls + 1
    /\ emitted' = NoneEmitted
    /\ gen' = gen

(***************************************************************************)
(* Builder calls.                                                          *)
(***************************************************************************)
Input ==
    /\ ncalls < MaxCalls
    /\ \E name \in InputNames, b \in InputBounds :
         IF name \in DOMAIN circuit.variables
         THEN Raises("input", circuit, <<name, b[1], b[2]>>)
         ELSE LET id == Len(circuit.objs) + 1
                  r  == [circuit EXCEPT
                            !.objs = Append(@, BoundedIntVar(name, b[1], b[2], 0)),
                            !.variables = Put(@, name, id),
                            !.inputs = Append(@, id),
                            !.bound_types = @ \cup {b}]
              IN  Returns("input", r, <<id>>, <<name, b[1], b[2]>>)

Constant ==
    /\ ncalls < MaxCalls
    /\ \E value \in ConstValues, name \in ConstNames :
         LET r == constant(circuit, value, name)
         IN  Returns("constant", r.c, <<r.ret>>, <<value, name>>)

RegisterConstant ==
    /\ ncalls < MaxCalls
    /\ \E value \in RegValues, name \in RegNames :
         Returns("register_constant", register_constant(circuit, value, name),
                 <<>>, <<value, name>>)

Add ==
    /\ ncalls < MaxCalls
    /\ \E a \in handles, b \in handles :
         LET r == add(circuit, a, b)
         IN  Returns("add", r.c, <<r.ret>>, <<a, b>>)

Sub ==
    /\ ncalls < MaxCalls
    /\ \E a \in handles, b \in handles :
         LET r == sub(circuit, a, b)
         IN  Returns("sub", r.c, <<r.ret>>, <<a, b>>)

Mul ==
    /\ ncalls < MaxCalls
    /\ \E a \in handles, b \in handles :
         LET r == mul(circuit, a, b)
         IN  Returns("mul", r.c, <<r.ret>>, <<a, b>>)

\* div_rem, or div (the quotient alone is returned) or mod (the remainder
\* alone), with the divisor given as a variable or as an integer.
DivRem ==
    /\ ncalls < MaxCalls
    /\ \E a \in handles, via \in { "div_rem", "div", "mod" } :
         \E d \in [ is_int : {FALSE}, b : handles ] \cup [ is_int : {TRUE}, b : IntDivisors ] :
            LET r == div_rem(circuit, a, d.b, d.is_int)
                ret == CASE via = "div_rem" -> r.ret
                         [] via = "div"     -> <<r.ret[1]>>
                         [] via = "mod"     -> <<r.ret[2]>>
            IN  IF r.raised
                THEN Raises(via, r.c, <<a, d.b, d.is_int>>)
                ELSE Returns(via, r.c, ret, <<a, d.b, d.is_int>>)

Reduce ==
    /\ ncalls < MaxCalls
    /\ \E var \in handles, modulus \in ReduceModuli :
         LET r == reduce(circuit, var, modulus)
         IN  Returns("reduce", r.c, <<r.ret>>, <<var, modulus>>)

Output ==
    /\ ncalls < MaxCalls
    /\ \E var \in handles, name \in OutputNames :
         Returns("output", output(circuit, var, name), <<>>, <<var, name>>)

\* compile(mode).  The call is no builder call: it is not counted.
Compiles(r, mode) ==
    /\ circuit' = r.c
    /\ handles' = handles
    /\ last' = Call("compile", r.raised, <<r.ret>>, <<mode>>)
    /\ ncalls' = ncalls
    /\ emitted' = IF r.raised THEN emitted
                   ELSE [emitted EXCEPT ![mode] = r.ret]
    /\ gen' = gen

Compile ==
    \E mode \in Modes : Compiles(compile(circuit, mode), mode)

Next ==
    \/ Input
    \/ Constant
    \/ RegisterConstant
    \/ Add
    \/ Sub
    \/ Mul
    \/ DivRem
    \/ Reduce
    \/ Output

Spec == Init /\ [][Next]_vars

\* input() of a value near the native width: the square of its magnitude
\* is limit.
WideNames == { "w" }
WideBounds == { <<2048, 2048>> }

InputWide ==
    /\ ncalls < MaxCalls
    /\ \E name \in WideNames, b \in WideBounds :
         IF name \in DOMAIN circuit.variables
         THEN Raises("input", circuit, <<name, b[1], b[2]>>)
         ELSE LET id == Len(circuit.objs) + 1
                  r  == [circuit EXCEPT
                            !.objs = Append(@, BoundedIntVar(name, b[1], b[2], 0)),
                            !.variables = Put(@, name, id),
                            !.inputs = Append(@, id),
                            !.bound_types = @ \cup {b}]
              IN  Returns("input", r, <<id>>, <<name, b[1], b[2]>>)

\* Building a circuit and compiling it.
NextEmit ==
    \/ Next
    \/ InputWide
    \/ Compile

SpecEmit == Init /\ [][NextEmit]_vars

\* Declaring inputs, marking outputs and compiling, where output() may also
\* be the call after the last of the MaxCalls calls, so that two inputs can
\* both be marked.
OutputLast ==
    /\ ncalls = MaxCalls
    /\ \E var \in handles, name \in OutputNames :
         Returns("output", output(circuit, var, name), <<>>, <<var, name>>)

NextOut ==
    \/ Input
    \/ Output
    \/ OutputLast
    \/ Compile

SpecOut == Init /\ [][NextOut]_vars

(***************************************************************************)
(* The transform generators as objects: construction, generate() and       *)
(* simulate().  circuit is the generator's self.circuit from construction  *)
(* on.                                                                     *)
(***************************************************************************)
Kinds == { "ntt", "intt" }

\* Sizes a generator is constructed with: every power of two up to 4096
\* and some other integers.
Sizes == { 2, 4, 8, 16, 32, 64, 128, 256, 512, 1024, 2048, 4096 }
             \cup { -4, -1, 0, 1, 3, 5, 6, 12, 1000, 1023, 1025 }

\* The largest size a circuit is generated for.
MaxTransform == 4

\* The vectors simulate() is given: the vectors over the two ends of
\* [0, Q - 1], the impulse (1, 0, ..., 0), and two vectors of integers
\* outside of [0, Q - 1].
InValues == { 0, Q - 1 }

Vectors(n) ==
    [ 1..n -> InValues ]
        \cup { [ k \in 1..n |-> IF k = 1 THEN 1 ELSE 0 ],
               [ k \in 1..n |-> -Q - 1 ],
               [ k \in 1..n |-> IF k % 2 = 1 THEN 2 * Q + 1 ELSE -Q - 1 ] }

\* __init__(n) of either generator.  A behaviour follows one generator
\* object: the constructor runs while there is none, and a constructor that
\* raised has left none.
Construct ==
    \E kind \in Kinds, n \in Sizes :
        /\ gen = NoGenerator
        /\ ncalls' = ncalls
        /\ IF invalid_size(n)
           THEN /\ UNCHANGED <<circuit, handles, emitted, gen>>
                /\ last' = Call("__init__", TRUE, <<>>, <<kind, n>>)
           ELSE /\ circuit' = GeneratorCircuit
                /\ handles' = {}
                /\ emitted' = NoneEmitted
                /\ gen' = [ kind |-> kind, n |-> n ]
                /\ last' = Call("__init__", FALSE, <<>>, <<kind, n>>)

\* generate(mode): the circuit is built anew and compiled.
Generates(r, mode) ==
    /\ circuit' = r.c
    /\ handles' = {}
    /\ last' = Call("generate", r.raised, <<r.ret>>, <<mode>>)
    /\ emitted' = IF r.raised THEN NoneEmitted
                   ELSE [NoneEmitted EXCEPT ![mode] = r.ret]
    /\ UNCHANGED <<ncalls, gen>>

Generate ==
    /\ gen.kind \in Kinds
    /\ gen.n <= MaxTransform
    /\ \E mode \in Modes : Generates(generate(gen.kind, gen.n, mode), mode)

\* simulate(values).  The values are a vector x, or, for the inverse
\* transform, the reference forward transform of x; the second argument
\* recorded is that x, or <<>>.
Simulated(r, values, x) ==
    /\ last' = Call("simulate", r.raised, <<r.ret>>, <<values, x>>)
    /\ UNCHANGED <<circuit, handles, ncalls, emitted, gen>>

Simulates(values, x) == Simulated(simulate(circuit, values), values, x)

Simulate ==
    /\ gen.kind \in Kinds
    /\ \E x \in Vectors(IF gen.n <= MaxTransform THEN gen.n ELSE 2),
           image \in (IF gen.kind = "intt" THEN BOOLEAN ELSE { FALSE }) :
          Simulates(IF image THEN reference_ntt(x) ELSE x,
                    IF image THEN x ELSE <<>>)

NextGen ==
    \/ Construct
    \/ Generate
    \/ Simulate

SpecGen == Init /\ [][NextGen]_vars

(***************************************************************************)
(* Vocabulary of the properties.                                           *)
(***************************************************************************)
ArithCalls == { "add", "sub", "mul" }

DivCalls == { "div_rem", "div", "mod" }

\* Bound magnitude max(|min_bound|, |max_bound|) of a variable.
Magnitude(o) == max({ abs(o.min_bound), abs(o.max_bound) })

\* The threshold test of the auto-reduce policy on a raw result.
WithinThreshold(o) ==
    -circuit.max_bound <= o.min_bound /\ o.max_bound <= circuit.max_bound

\* Indices of the operations the latest call appended.
NewOps == (last.nops + 1) .. Len(circuit.operations)

\* The latest call was a returning add, sub or mul.
AfterArith == last.call \in ArithCalls /\ ~last.raised

\* The raw ADD/SUB/MUL result of the latest arithmetic call and the
\* variable the call returned.
RawResult == circuit.objs[circuit.operations[last.nops + 1].result]

Returned == circuit.objs[last.ret[1]]

Producer(o) == IF o.source = 0 THEN "none" ELSE circuit.operations[o.source].op_type

ReducedToModulus(o) ==
    /\ Producer(o) = "REDUCE"
    /\ o.min_bound = 0
    /\ o.max_bound = circuit.modulus - 1

(***************************************************************************)
(* C1 (as stated): on a circuit built without div_rem, every variable      *)
(* produced by an operation has bound magnitude at most the auto-reduce    *)
(* threshold.  The raw result of an auto-reduced operation, and the        *)
(* shifted value beneath a REDUCE, stay in the circuit with their bounds.  *)
(***************************************************************************)
C1_AllDerivedWithinThreshold ==
    (\A i \in 1..Len(circuit.operations) :
        circuit.operations[i].op_type \notin { "DIV", "REM" })
    => \A v \in 1..Len(circuit.objs) :
          circuit.objs[v].source # 0
          => Magnitude(circuit.objs[v]) <= circuit.max_bound

(***************************************************************************)
(* C1 (amended): the variable RETURNED by add, sub or mul has bound        *)
(* magnitude at most max(threshold, modulus - 1); whenever the raw         *)
(* propagated bound exceeds the threshold the returned variable's          *)
(* producer is REDUCE and its bounds are [0, modulus - 1].                 *)
(***************************************************************************)
C1_ReturnedWithinThreshold ==
    AfterArith =>
        /\ Magnitude(Returned) <= max({ circuit.max_bound, circuit.modulus - 1 })
        /\ ~WithinThreshold(RawResult) => ReducedToModulus(Returned)

C1_Witness ==
    /\ AfterArith
    /\ ~WithinThreshold(RawResult)
    /\ ReducedToModulus(Returned)
    /\ Magnitude(Returned) > circuit.max_bound

(***************************************************************************)
(* C2: add, sub and mul return the raw result (producer ADD/SUB/MUL) when  *)
(* its bounds are within the threshold, and otherwise a variable produced  *)
(* by REDUCE with bounds [0, modulus - 1]; an auto-reducing call appends,  *)
(* after the raw operation, exactly one REDUCE, preceded by one shift ADD  *)
(* exactly when the raw minimum is negative.                               *)
(***************************************************************************)
C2_AutoReduceOnce ==
    AfterArith =>
        IF WithinThreshold(RawResult)
        THEN /\ last.ret[1] = circuit.operations[last.nops + 1].result
             /\ Producer(Returned) \in { "ADD", "SUB", "MUL" }
        ELSE /\ ReducedToModulus(Returned)
             /\ Cardinality({ i \in NewOps :
                                circuit.operations[i].op_type = "REDUCE" }) = 1
             /\ Cardinality({ i \in NewOps \ {last.nops + 1} :
                                circuit.operations[i].op_type = "ADD" })
                  = IF RawResult.min_bound < 0 THEN 1 ELSE 0
             /\ Cardinality(NewOps) = IF RawResult.min_bound < 0 THEN 3 ELSE 2

(***************************************************************************)
(* C3: the result of every ADD a call appends has bounds [a0+b0, a1+b1],   *)
(* of every SUB [a0-b1, a1-b0], of every MUL the least and greatest of the *)
(* four corner products, and these are the exact minimum and maximum of    *)
(* the operator over all integer pairs of the two operand intervals; add,  *)
(* sub and mul return that result when no auto-reduce is triggered.        *)
(***************************************************************************)
Apply(op_type, x, y) ==
    CASE op_type = "ADD" -> x + y
      [] op_type = "SUB" -> x - y
      [] op_type = "MUL" -> x * y

Values(op_type, a, b) ==
    { Apply(op_type, x, y) : x \in a[1]..a[2], y \in b[1]..b[2] }

ClosedForm(op_type, a, b) ==
    CASE op_type = "ADD" -> << a[1] + b[1], a[2] + b[2] >>
      [] op_type = "SUB" -> << a[1] - b[2], a[2] - b[1] >>
      [] op_type = "MUL" ->
           << min({ a[1] * b[1], a[1] * b[2], a[2] * b[1], a[2] * b[2] }),
              max({ a[1] * b[1], a[1] * b[2], a[2] * b[1], a[2] * b[2] }) >>

C3_BoundsExact ==
    /\ \A i \in NewOps :
          LET op == circuit.operations[i]
              a  == bounds(circuit, op.operands[1])
              b  == bounds(circuit, op.operands[2])
              r  == bounds(circuit, op.result)
          IN  op.op_type \in { "ADD", "SUB", "MUL" } =>
                /\ a[1] <= a[2] /\ b[1] <= b[2]
                /\ r = ClosedForm(op.op_type, a, b)
                /\ r[1] = min(Values(op.op_type, a, b))
                /\ r[2] = max(Values(op.op_type, a, b))
    /\ AfterArith /\ WithinThreshold(RawResult)
          => last.ret[1] = circuit.operations[last.nops + 1].result

\* A signed multiplication whose extremes are the mixed corners has been
\* returned without auto-reduce.
C3_Witness ==
    /\ AfterArith
    /\ last.call = "mul"
    /\ WithinThreshold(RawResult)
    /\ last.ret[1] = circuit.operations[last.nops + 1].result
    /\ Returned.min_bound < 0
    /\ LET a == bounds(circuit, last.args[1])
           b == bounds(circuit, last.args[2])
       IN  Returned.min_bound < min({ a[1] * b[1], a[2] * b[2] })

(***************************************************************************)
(* C4: reduce(var, m) on a variable whose min_bound is negative returns a  *)
(* variable with bounds exactly [0, m-1] whose REDUCE operation records    *)
(* quotient bounds with q_min >= 0, and the operand of that REDUCE (the    *)
(* shifted value) has min_bound in [0, m-1].                               *)
(***************************************************************************)
AfterReduce == last.call = "reduce" /\ ~last.raised

\* The modulus a reduce call works with: modulus or self.modulus.
ReduceModulus == IF last.args[2] = 0 THEN circuit.modulus ELSE last.args[2]

ReduceOp == circuit.operations[Returned.source]

C4_NegativeReduce ==
    AfterReduce /\ circuit.objs[last.args[1]].min_bound < 0 =>
        /\ Returned.source # 0
        /\ ReduceOp.op_type = "REDUCE"
        /\ Returned.min_bound = 0
        /\ Returned.max_bound = ReduceModulus - 1
        /\ ReduceOp.q_bounds[1] >= 0
        /\ circuit.objs[ReduceOp.operands[1]].min_bound \in 0 .. (ReduceModulus - 1)

\* The same statement for the calls in which the second operand of the
\* shift ADD is a singleton, i.e. constant() did not hand back a variable
\* of another value under the name const_<shift>.
C4_NegativeReduceSingletonShift ==
    ( /\ AfterReduce
      /\ circuit.objs[last.args[1]].min_bound < 0
      /\ LET shift == circuit.operations[circuit.objs[ReduceOp.operands[1]].source]
         IN  circuit.objs[shift.operands[2]].min_bound
               = circuit.objs[shift.operands[2]].max_bound )
    => C4_NegativeReduce

(***************************************************************************)
(* C5 (as stated): every returning div_rem call appends exactly two        *)
(* operations, a DIV immediately followed by a REM with the same operand   *)
(* list; the REM result has bounds [0, max(|b_min|,|b_max|)-1]; the REM    *)
(* records a reference to its DIV and the DIV a reference to its REM.      *)
(***************************************************************************)
AfterDivRem == last.call \in DivCalls /\ ~last.raised

DivOp == circuit.operations[last.nops + 1]

RemOp == circuit.operations[last.nops + 2]

C5_PairShape ==
    /\ Cardinality(NewOps) = 2
    /\ DivOp.op_type = "DIV"
    /\ RemOp.op_type = "REM"
    /\ DivOp.operands = RemOp.operands
    /\ LET b == circuit.objs[RemOp.operands[2]]
       IN  bounds(circuit, RemOp.result)
             = << 0, max({ abs(b.min_bound), abs(b.max_bound) }) - 1 >>
    /\ RemOp.linked_to = circuit.objs[DivOp.result].name

C5_MutualLink ==
    AfterDivRem =>
        /\ C5_PairShape
        /\ DivOp.linked_to = circuit.objs[RemOp.result].name

(***************************************************************************)
(* C5 (amended): every returning div_rem call appends exactly two          *)
(* operations, a DIV immediately followed by a REM with the same operand   *)
(* list; the REM result has bounds [0, max(|b_min|,|b_max|)-1] for the     *)
(* divisor operand's bounds; the link is one-way: the REM records the name *)
(* of its DIV's result and the DIV records no reference to its REM.  In    *)
(* every trace each DIV is immediately followed by a REM with the same     *)
(* operands and each REM immediately preceded by such a DIV.               *)
(***************************************************************************)
C5_OneWayLink ==
    /\ AfterDivRem =>
          /\ C5_PairShape
          /\ DivOp.linked_to = ""
    /\ \A i \in 1..Len(circuit.operations) :
          LET op == circuit.operations[i]
          IN  /\ op.op_type = "DIV" =>
                    /\ i < Len(circuit.operations)
                    /\ circuit.operations[i + 1].op_type = "REM"
                    /\ circuit.operations[i + 1].operands = op.operands
                    /\ op.linked_to = ""
              /\ op.op_type = "REM" =>
                    /\ i > 1
                    /\ circuit.operations[i - 1].op_type = "DIV"
                    /\ op.linked_to # ""

C5_Witness ==
    /\ AfterDivRem
    /\ C5_PairShape
    /\ bounds(circuit, RemOp.result)[2] > 0
    /\ DivOp.linked_to = ""

(***************************************************************************)
(* C6: input() with a name already in the circuit, and div_rem() with a    *)
(* divisor interval [0,0] (a variable, or the integer 0), raise, and the   *)
(* raising call leaves the circuit exactly as it was.                      *)
(***************************************************************************)
ZeroDivisor(args) ==
    IF args[3] THEN args[2] = 0 ELSE bounds(circuit, args[2]) = <<0, 0>>

C6_Step ==
    /\ last'.call = "input" /\ last'.args[1] \in DOMAIN circuit.variables
          => last'.raised
    /\ last'.call \in DivCalls /\ ZeroDivisor(last'.args)
          => last'.raised
    /\ last'.raised => circuit' = circuit

C6_FailingCallAtomic == [][C6_Step]_vars

(***************************************************************************)
(* C7: no two distinct variables of the circuit carry the same name, and   *)
(* the name-keyed table maps every variable's name to that variable.       *)
(***************************************************************************)
C7_NamesUnique ==
    /\ \A v, w \in 1..Len(circuit.objs) :
          v # w => circuit.objs[v].name # circuit.objs[w].name
    /\ \A v \in 1..Len(circuit.objs) :
          /\ circuit.objs[v].name \in DOMAIN circuit.variables
          /\ circuit.variables[circuit.objs[v].name] = v

(***************************************************************************)
(* C8: constant(value, name) returns a variable with min_bound =           *)
(* max_bound = value; with a name already in the table it returns the      *)
(* variable of that name and creates nothing; it never changes the         *)
(* constant registry, the trace or the bound-type registry.                *)
(***************************************************************************)
C8_Step ==
    last'.call = "constant" =>
        LET value == last'.args[1]
            nm    == IF last'.args[2] = None
                     THEN "const_" \o ToString(value) ELSE last'.args[2]
            ret   == circuit'.objs[last'.ret[1]]
        IN  /\ ret.min_bound = value
            /\ ret.max_bound = value
            /\ nm \in DOMAIN circuit.variables =>
                  /\ last'.ret[1] = circuit.variables[nm]
                  /\ circuit' = circuit
            /\ circuit'.constants = circuit.constants
            /\ circuit'.operations = circuit.operations
            /\ circuit'.bound_types = circuit.bound_types

C8_ConstantSingleton == [][C8_Step]_vars

(***************************************************************************)
(* C9 (as stated): every builder call leaves the recorded trace as an      *)
(* unchanged prefix of the new trace and changes neither the bounds nor    *)
(* the producer of an existing variable; every returning add, sub, mul,    *)
(* div_rem and reduce appends exactly one or two operations.               *)
(***************************************************************************)
AppendOnly ==
    /\ Len(circuit'.operations) >= Len(circuit.operations)
    /\ SubSeq(circuit'.operations, 1, Len(circuit.operations)) = circuit.operations
    /\ Len(circuit'.objs) >= Len(circuit.objs)
    /\ \A v \in 1..Len(circuit.objs) :
          /\ circuit'.objs[v].min_bound = circuit.objs[v].min_bound
          /\ circuit'.objs[v].max_bound = circuit.objs[v].max_bound
          /\ circuit'.objs[v].source = circuit.objs[v].source

Appended == Len(circuit'.operations) - Len(circuit.operations)

OpCreating == ArithCalls \cup DivCalls \cup { "reduce" }

C9_OneOrTwoStep ==
    /\ AppendOnly
    /\ last'.call \in OpCreating /\ ~last'.raised => Appended \in { 1, 2 }

C9_AppendStep ==
    /\ AppendOnly
    /\ ~last'.raised =>
          CASE last'.call = "reduce"    -> Appended \in { 1, 2 }
            [] last'.call \in DivCalls   -> Appended = 2
            [] last'.call \in ArithCalls -> Appended \in { 1, 4, 7 }
            [] OTHER                     -> Appended = 0
    /\ last'.raised => Appended = 0

HasRegisteredType(b) ==
    \/ b \in circuit.bound_types
    \/ b[1] = b[2] /\ b[1] \in DOMAIN circuit.constants

C10_TypesRegistered ==
    \A i \in 1..Len(circuit.operations) :
        LET op == circuit.operations[i]
        IN  /\ HasRegisteredType(bounds(circuit, op.result))
            /\ \A k \in 1..Len(op.operands) :
                  HasRegisteredType(bounds(circuit, op.operands[k]))

(***************************************************************************)
(* Vocabulary of the properties about emitted text.                        *)
(***************************************************************************)
\* The latest call was compile(mode) and it returned text.
Compiled(mode) ==
    last.call = "compile" /\ ~last.raised /\ last.args[1] = mode

\* The text the latest compile returned.
Text == last.ret[1]

\* The (operator, operand bounds) combination of operation i.  The DIV and
\* the REM of a div_rem are one combination, and a REDUCE is taken with
\* the modulus it reduces by.
Combination(c, i) ==
    LET op == c.operations[i]
    IN  CASE op.op_type \in { "ADD", "SUB", "MUL" } ->
               <<op.op_type, bounds(c, op.operands[1]), bounds(c, op.operands[2])>>
          [] op.op_type = "REDUCE" ->
               <<"REDUCE", bounds(c, op.operands[1]),
                 <<op_modulus(c, op), op_modulus(c, op)>> >>
          [] OTHER ->
               <<"DIVREM", bounds(c, op.operands[1]), bounds(c, op.operands[2])>>

\* The trait a helper impl for operation i implements.
HelperTrait(c, i) ==
    LET op == c.operations[i]
    IN  CASE op.op_type = "ADD" -> _gen_arith_helper(c, op, "Add", "AddHelper").of
          [] op.op_type = "SUB" -> _gen_arith_helper(c, op, "Sub", "SubHelper").of
          [] op.op_type = "MUL" -> _gen_arith_helper(c, op, "Mul", "MulHelper").of
          [] OTHER              -> _gen_divrem_helper(c, op).of

(***************************************************************************)
(* C12: the bounded-mode text holds one helper impl declaration for every  *)
(* (operator, operand bounds) combination of the trace, however often the  *)
(* combination occurs: there are as many declarations as combinations, and *)
(* every operation finds the declaration of its trait among them.          *)
(***************************************************************************)
C12_OneImplPerCombination ==
    Compiled("bounded") =>
        LET n == Len(circuit.operations)
        IN  /\ Len(Text.impls)
                  = Cardinality({ Combination(circuit, i) : i \in 1..n })
            /\ \A i \in 1..n :
                  \E k \in 1..Len(Text.impls) :
                      Text.impls[k].of = HelperTrait(circuit, i)

\* A compiled trace in which a combination occurs twice.
C12_Witness ==
    /\ Compiled("bounded")
    /\ \E i, j \in 1..Len(circuit.operations) :
          /\ i < j
          /\ circuit.operations[i].op_type = circuit.operations[j].op_type
          /\ circuit.operations[i].op_type \in { "ADD", "SUB", "MUL", "REDUCE" }
          /\ Combination(circuit, i) = Combination(circuit, j)

(***************************************************************************)
(* C13: compile("felt252") raises, and returns no text, whenever some      *)
(* variable of the circuit has a bound magnitude max(|min_bound|,          *)
(* |max_bound|) of the native-width limit or more.                         *)
(***************************************************************************)
C13_WideVariableRejected ==
    (/\ last.call = "compile"
     /\ last.args[1] = "felt252"
     /\ \E v \in 1..Len(circuit.objs) : Magnitude(circuit.objs[v]) >= limit)
        => last.raised /\ Text.mode = "none"

(***************************************************************************)
(* C14: the legality check raises exactly when some variable has a bound   *)
(* magnitude of 2**128 or more.  NativeWidth128 is the 2**128 of the tests *)
(* of the check at the scale of the model: above the modulus and below     *)
(* DefaultMaxBound, as 2**128 is below 2**250.                             *)
(***************************************************************************)
NativeWidth128 == 2048

C14_RaisesFrom128 ==
    _validate_felt252_mode(circuit)
        <=> \E v \in 1..Len(circuit.objs) :
                Magnitude(circuit.objs[v]) >= NativeWidth128

(***************************************************************************)
(* The value of an emitted felt252 function on concrete arguments: the     *)
(* parameters and the constant bindings, then the body statements in       *)
(* order, then for every output the conversion of source + SHIFT to        *)
(* ShiftedT and its remainder by the modulus.  ok is FALSE when a          *)
(* statement reads a name that no earlier statement binds, or a            *)
(* conversion is out of the range of ShiftedT.                             *)
(***************************************************************************)
Felt252Start(f, values) ==
    LET params == { f.params[k] : k \in 1..Len(f.params) }
        bound  == { f.bindings[k].name : k \in 1..Len(f.bindings) }
    IN  [ n \in params \cup bound |->
            IF n \in bound
            THEN f.bindings[max({ k \in 1..Len(f.bindings) :
                                    f.bindings[k].name = n })].value
            ELSE values[max({ k \in 1..Len(f.params) : f.params[k] = n })] ]

RECURSIVE Felt252Body(_, _, _)
Felt252Body(f, values, n) ==
    IF n = 0 THEN [ ok |-> TRUE, env |-> Felt252Start(f, values) ]
    ELSE LET prev == Felt252Body(f, values, n - 1)
             st   == f.body[n]
         IN  IF ~prev.ok THEN prev
             ELSE IF ~({ st.left, st.right } \subseteq DOMAIN prev.env)
                  THEN [ ok |-> FALSE, env |-> prev.env ]
                  ELSE [ ok  |-> TRUE,
                         env |-> Put(prev.env, st.name,
                            CASE st.op = "+" -> prev.env[st.left] + prev.env[st.right]
                              [] st.op = "-" -> prev.env[st.left] - prev.env[st.right]
                              [] st.op = "*" -> prev.env[st.left] * prev.env[st.right]) ]

RECURSIVE Felt252Reductions(_, _, _, _)
Felt252Reductions(text, values, modulus, n) ==
    IF n = 0 THEN Felt252Body(text.function, values, Len(text.function.body))
    ELSE LET prev == Felt252Reductions(text, values, modulus, n - 1)
             st   == text.function.reductions[n]
         IN  IF ~prev.ok THEN prev
             ELSE IF st.src \notin DOMAIN prev.env
                  THEN [ ok |-> FALSE, env |-> prev.env ]
                  ELSE IF prev.env[st.src] + text.constants.SHIFT
                             \notin 0..text.constants.ShiftedT[2]
                       THEN [ ok |-> FALSE, env |-> prev.env ]
                       ELSE [ ok  |-> TRUE,
                              env |-> Put(prev.env, st.name,
                                  (prev.env[st.src] + text.constants.SHIFT)
                                      % modulus) ]

Felt252Run(text, values, modulus) ==
    LET run   == Felt252Reductions(text, values, modulus,
                                   Len(text.function.reductions))
        names == text.function.result.names
    IN  IF run.ok /\ { names[k] : k \in 1..Len(names) } \subseteq DOMAIN run.env
        THEN [ ok |-> TRUE, ret |-> [ k \in 1..Len(names) |-> run.env[names[k]] ] ]
        ELSE [ ok |-> FALSE, ret |-> <<>> ]

\* The assignments of the inputs within their declared bounds
Assignments(c) ==
    LET declared == UNION { c.objs[c.inputs[k]].min_bound
                               .. c.objs[c.inputs[k]].max_bound :
                            k \in 1..Len(c.inputs) }
    IN  { v \in [ 1..Len(c.inputs) -> declared ] :
            \A k \in 1..Len(c.inputs) :
                v[k] \in c.objs[c.inputs[k]].min_bound
                            .. c.objs[c.inputs[k]].max_bound }

(***************************************************************************)
(* C15: for a circuit both emitters accept and every assignment of the     *)
(* inputs within their declared bounds, every output of the felt252        *)
(* program is congruent modulo the modulus to the corresponding output of  *)
(* the bounded program, whose values are those the simulator computes.     *)
(***************************************************************************)
C15_BackendsAgree ==
    Compiled("felt252") =>
        \A values \in Assignments(circuit) :
            LET sim    == simulate(circuit, values)
                native == Felt252Run(Text, values, circuit.modulus)
            IN  ~sim.raised =>
                   /\ native.ok
                   /\ Len(native.ret) = Len(sim.ret)
                   /\ \A k \in 1..Len(sim.ret) :
                         native.ret[k] % circuit.modulus
                             = sim.ret[k] % circuit.modulus

(***************************************************************************)
(* C20: compile changes no field of the circuit, and it returns the text   *)
(* it returned before for the same mode when no builder call lies between. *)
(***************************************************************************)
C20_Step ==
    last'.call = "compile" =>
        /\ circuit' = circuit
        /\ \A mode \in Modes :
              (/\ last'.args[1] = mode
               /\ ~last'.raised
               /\ emitted[mode].mode # "none") => last'.ret[1] = emitted[mode]

C20_CompileReadOnly == [][C20_Step]_vars

(***************************************************************************)
(* C11: output(var, name) appends var to the output list, renaming it in   *)
(* place when a name is given, and the return statement of the function    *)
(* emitted in either mode lists the current names of the outputs in the    *)
(* order of the output() calls: bare for one output, as a tuple for        *)
(* several.                                                                *)
(***************************************************************************)
C11_Step ==
    /\ (last'.call = "output" /\ ncalls' = ncalls + 1) =>
          LET var  == last'.args[1]
              name == last'.args[2]
          IN  /\ ~last'.raised
              /\ circuit'.outputs = Append(circuit.outputs, var)
              /\ Len(circuit'.objs) = Len(circuit.objs)
              /\ circuit'.objs[var] =
                    [circuit.objs[var] EXCEPT
                        !.name = IF name = None THEN @ ELSE name]
              /\ \A v \in DOMAIN circuit.objs :
                    v # var => circuit'.objs[v] = circuit.objs[v]
    /\ (last'.call = "compile" /\ ~last'.raised) =>
          LET outs   == circuit'.outputs
              result == last'.ret[1].function.result
          IN  /\ last'.args[1] \in Modes
              /\ circuit'.outputs = circuit.outputs
              /\ result.names =
                    [ k \in 1..Len(outs) |-> circuit'.objs[outs[k]].name ]
              /\ Len(outs) = 1 => ~result.tuple
              /\ Len(outs) > 1 => result.tuple

C11_OutputOrder == [][C11_Step]_vars

\* Two inputs marked as outputs in the order opposite to their declaration,
\* the second under a new name, then compiled in felt252 mode.
C11_Witness ==
    /\ Compiled("felt252")
    /\ Len(circuit.outputs) = 2
    /\ circuit.outputs[1] > circuit.outputs[2]
    /\ Text.function.result = [ tuple |-> TRUE, names |-> <<"a", "tmp_0">> ]
    /\ circuit.objs[circuit.outputs[1]].name = "a"
    /\ circuit.objs[circuit.outputs[2]].name = "tmp_0"

(***************************************************************************)
(* The transform generators.                                               *)
(***************************************************************************)

\* generate() has built the circuit of the generator.
Built == gen.kind \in Kinds /\ Len(circuit.inputs) = gen.n

\* The vectors of [0, Q - 1]^n.
InRange(x) == \A k \in DOMAIN x : x[k] \in 0..(Q - 1)

PowersOfTwoTo1024 == { 2, 4, 8, 16, 32, 64, 128, 256, 512, 1024 }

\* C19: constructing a forward or inverse generator of size n raises, and
\* leaves no generator and no circuit behind, exactly when n is not a power
\* of two with 2 <= n <= 1024; every power of two in that range is accepted
\* and yields a generator of that size.
C19_Step ==
    (last'.call = "__init__" /\ last' # last) =>
        LET n == last'.args[2]
        IN  /\ last'.raised <=> n \notin PowersOfTwoTo1024
            /\ last'.raised => circuit' = circuit /\ gen' = NoGenerator
            /\ ~last'.raised =>
                  /\ gen' = [ kind |-> last'.args[1], n |-> n ]
                  /\ circuit'.operations = <<>>

C19_InvalidSizeRaises == [][C19_Step]_vars

C19_Witness ==
    /\ last.call = "__init__"
    /\ last.raised
    /\ last.args[2] = 2048
    /\ gen = NoGenerator

\* C16: simulating the forward-transform circuit on a vector of [0, Q-1]^n
\* returns exactly the reference recursive NTT of that vector.
C16_SimulateIsReferenceNtt ==
    (/\ last.call = "simulate"
     /\ Built
     /\ gen.kind = "ntt"
     /\ Len(last.args[1]) = gen.n
     /\ InRange(last.args[1])) =>
        /\ ~last.raised
        /\ last.ret[1] = reference_ntt(last.args[1])

C16_Witness ==
    /\ last.call = "simulate"
    /\ Built
    /\ gen = [ kind |-> "ntt", n |-> 4 ]
    /\ last.args[1] = <<Q - 1, 0, Q - 1, Q - 1>>
    /\ ~last.raised
    /\ last.ret[1] = reference_ntt(last.args[1])
    /\ \E k \in 1..4 : last.ret[1][k] # 0

\* C17: simulating the inverse-transform circuit on the forward transform
\* of a vector x of [0, Q-1]^n returns exactly x.
C17_RoundTrip ==
    (/\ last.call = "simulate"
     /\ Built
     /\ gen.kind = "intt"
     /\ Len(last.args[2]) = gen.n
     /\ InRange(last.args[2])
     /\ last.args[1] = reference_ntt(last.args[2])) =>
        /\ ~last.raised
        /\ last.ret[1] = last.args[2]

C17_Witness ==
    /\ last.call = "simulate"
    /\ Built
    /\ gen = [ kind |-> "intt", n |-> 4 ]
    /\ last.args[2] = <<1, 0, 0, 0>>
    /\ last.args[1] = reference_ntt(last.args[2])
    /\ ~last.raised
    /\ last.ret[1] = <<1, 0, 0, 0>>

\* C18: every value simulate returns for a circuit built by the forward or
\* the inverse generator lies in [0, modulus - 1], for every input vector of
\* integers.
C18_OutputsInRange ==
    (/\ last.call = "simulate"
     /\ Built
     /\ Len(last.args[1]) = gen.n) =>
        /\ ~last.raised
        /\ Len(last.ret[1]) = gen.n
        /\ \A k \in 1..gen.n : last.ret[1][k] \in 0..(circuit.modulus - 1)

C18_Witness ==
    /\ last.call = "simulate"
    /\ Built
    /\ gen.n = 4
    /\ \A k \in 1..4 : last.args[1][k] \notin 0..(Q - 1)
    /\ ~last.raised
    /\ \A k \in 1..4 : last.ret[1][k] \in 0..(circuit.modulus - 1)

(***************************************************************************)
(* C21: reduce() on a variable whose min_bound is negative appends exactly *)
(* one ADD of the shift constant ceil(|min| / m) * m followed by exactly   *)
(* one REDUCE of the sum and nothing else: the shift ADD is never          *)
(* auto-reduced, also when its bounds exceed the threshold.                *)
(***************************************************************************)
ShiftAmount ==
    ceil_div(abs(circuit.objs[last.args[1]].min_bound), ReduceModulus) * ReduceModulus

C21_RawShift ==
    (AfterReduce /\ circuit.objs[last.args[1]].min_bound < 0) =>
        /\ Len(circuit.operations) = last.nops + 2
        /\ LET shift == circuit.operations[last.nops + 1]
               final == circuit.operations[last.nops + 2]
           IN  /\ shift.op_type = "ADD"
               /\ shift.operands[1] = last.args[1]
               /\ bounds(circuit, shift.operands[2]) = <<ShiftAmount, ShiftAmount>>
               /\ final.op_type = "REDUCE"
               /\ final.operands = <<shift.result>>
               /\ last.ret = <<final.result>>

\* The same statement for the calls in which constant() made or found a
\* singleton for the shift, i.e. no variable of another value was already
\* named const_<shift>.
C21_RawShiftSingletonOperand ==
    ( /\ AfterReduce
      /\ circuit.objs[last.args[1]].min_bound < 0
      /\ Len(circuit.operations) > last.nops
      /\ LET shift == circuit.operations[last.nops + 1]
         IN  /\ Len(shift.operands) = 2
             /\ circuit.objs[shift.operands[2]].min_bound
                   = circuit.objs[shift.operands[2]].max_bound )
    => C21_RawShift

\* A shift ADD whose bounds exceed the threshold and is left unreduced
C21_ShiftBeyondThreshold ==
    /\ AfterReduce
    /\ circuit.objs[last.args[1]].min_bound < 0
    /\ C21_RawShift
    /\ circuit.objs[circuit.operations[last.nops + 1].result].max_bound
          > circuit.max_bound

(***************************************************************************)
(* C22: the felt252 body has no statement for a REDUCE nor for a shift ADD *)
(* that reduce() synthesized, whatever the number of modulus copies in the *)
(* shift, and for each output exactly one terminal reduction, whose source *)
(* is the operand beneath the output's REDUCE and, when present, beneath   *)
(* its shift ADD.                                                          *)
(***************************************************************************)
\* Operation i is a shift ADD synthesized by reduce(): it adds the
\* singleton ceil(|min| / m) * m to a variable of negative min_bound, and
\* the next operation is the REDUCE by m of its result.
SynthesizedShift(i) ==
    LET ops == circuit.operations
    IN  /\ ops[i].op_type = "ADD"
        /\ i < Len(ops)
        /\ ops[i + 1].op_type = "REDUCE"
        /\ ops[i + 1].operands = <<ops[i].result>>
        /\ circuit.objs[ops[i].operands[1]].min_bound < 0
        /\ LET shift == ceil_div(abs(circuit.objs[ops[i].operands[1]].min_bound),
                                 ops[i + 1].modulus) * ops[i + 1].modulus
           IN  bounds(circuit, ops[i].operands[2]) = <<shift, shift>>

\* The operations that are neither.
NativeOps ==
    SelectSeq(Indices(Len(circuit.operations)),
              LAMBDA i : /\ circuit.operations[i].op_type # "REDUCE"
                         /\ ~SynthesizedShift(i))

\* The unreduced value an output stands for
TrueSource(out_var) ==
    LET out == circuit.objs[out_var]
    IN  IF out.source # 0 /\ circuit.operations[out.source].op_type = "REDUCE"
        THEN LET v == circuit.operations[out.source].operands[1]
             IN  IF circuit.objs[v].source # 0
                       /\ SynthesizedShift(circuit.objs[v].source)
                 THEN circuit.operations[circuit.objs[v].source].operands[1]
                 ELSE v
        ELSE out_var

C22_NativeBody ==
    Compiled("felt252") =>
        LET f == Text.function
        IN  /\ Len(f.body) = Len(NativeOps)
            /\ \A k \in 1..Len(NativeOps) :
                  f.body[k].name
                      = circuit.objs[circuit.operations[NativeOps[k]].result].name
            /\ Len(f.reductions) = Len(circuit.outputs)
            /\ \A k \in 1..Len(circuit.outputs) :
                  /\ f.reductions[k].name = circuit.objs[circuit.outputs[k]].name
                  /\ f.reductions[k].src
                        = circuit.objs[TrueSource(circuit.outputs[k])].name

\* The same statement for the circuits in which every synthesized shift is
\* of two or more copies of the modulus.
C22_NativeBodySeveralCopies ==
    (\A i \in 1..Len(circuit.operations) :
        SynthesizedShift(i) =>
            circuit.objs[circuit.operations[i].operands[2]].min_bound
                > circuit.operations[i + 1].modulus)
    => C22_NativeBody

(***************************************************************************)
(* C23: in bounded mode, for every div_rem call of the trace the DIV is    *)
(* emitted as one destructuring statement that binds the quotient name     *)
(* together with the result name of the REM the same call created, and     *)
(* that REM has no statement of its own: every REM result name is bound    *)
(* by exactly one emitted statement.                                       *)
(***************************************************************************)
\* The positions of the DIVs of the trace; div_rem appends the REM of the
\* same call right after its DIV.
DivPositions ==
    { i \in 1..Len(circuit.operations) : circuit.operations[i].op_type = "DIV" }

ResultName(i) == circuit.objs[circuit.operations[i].result].name

\* The emitted statements that bind the name.
Binders(name) ==
    { k \in 1..Len(Text.function.body) :
        \E b \in 1..Len(Text.function.body[k].binds) :
            Text.function.body[k].binds[b] = name }

C23_DivRemFused ==
    Compiled("bounded") =>
        \A i \in DivPositions :
            /\ \E k \in 1..Len(Text.function.body) :
                  Text.function.body[k].binds = <<ResultName(i), ResultName(i + 1)>>
            /\ Cardinality(Binders(ResultName(i + 1))) = 1

\* The same statement for the traces in which no two div_rem calls have
\* equal operand lists.
C23_DivRemFusedDistinctOperands ==
    (\A i, j \in DivPositions :
        i # j => ~ /\ var_eq(circuit, circuit.operations[i].operands[1],
                                      circuit.operations[j].operands[1])
                   /\ var_eq(circuit, circuit.operations[i].operands[2],
                                      circuit.operations[j].operands[2]))
    => C23_DivRemFused

(***************************************************************************)
(* C24: bounded-mode output declares the plain form of a registered        *)
(* constant only if the constant is an operand of some ADD/SUB/MUL, and    *)
(* the non-zero form only if it is the divisor of some DIV/REM/REDUCE;     *)
(* the two forms are tracked independently, and a registered constant      *)
(* referenced nowhere gets no declaration.                                 *)
(***************************************************************************)
\* The value is an operand of some ADD/SUB/MUL of the trace.
ArithOperand(v) ==
    \E i \in 1..Len(circuit.operations) :
        /\ circuit.operations[i].op_type \in { "ADD", "SUB", "MUL" }
        /\ \E k \in 1..2 : bounds(circuit, circuit.operations[i].operands[k]) = <<v, v>>

\* The value is the divisor of some DIV/REM or the modulus of some REDUCE.
Divisor(v) ==
    \E i \in 1..Len(circuit.operations) :
        \/ /\ circuit.operations[i].op_type \in { "DIV", "REM" }
           /\ bounds(circuit, circuit.operations[i].operands[2]) = <<v, v>>
        \/ /\ circuit.operations[i].op_type = "REDUCE"
           /\ op_modulus(circuit, circuit.operations[i]) = v

\* The declarations of the text in each form.
PlainDeclared(v) ==
    \E k \in 1..Len(Text.constants) :
        /\ Text.constants[k].value = v
        /\ Text.constants[k].type = circuit.constants[v] \o "Const"

NonZeroDeclared(v) ==
    \E k \in 1..Len(Text.constants) :
        /\ Text.constants[k].value = v
        /\ Text.constants[k].type = "NonZero<" \o circuit.constants[v] \o "Const>"

C24_ConstantsAsUsed ==
    Compiled("bounded") =>
        /\ \A k \in 1..Len(Text.constants) :
              Text.constants[k].value \in DOMAIN circuit.constants
        /\ \A v \in DOMAIN circuit.constants :
              /\ PlainDeclared(v) => ArithOperand(v)
              /\ NonZeroDeclared(v) => Divisor(v)

\* One registered constant is declared in one form only, another in none.
C24_Witness ==
    /\ Compiled("bounded")
    /\ \E v, w \in DOMAIN circuit.constants :
          /\ NonZeroDeclared(v) /\ ~PlainDeclared(v)
          /\ ~NonZeroDeclared(w) /\ ~PlainDeclared(w)
    /\ \E v \in DOMAIN circuit.constants :
          PlainDeclared(v) /\ ~NonZeroDeclared(v)

(***************************************************************************)
(* Building a circuit and replaying it with the simulator.                 *)
(***************************************************************************)
\* input() of a variable whose interval lies below zero.
NegativeNames == { "d" }
NegativeBounds == { <<-3, -2>> }

InputNegative ==
    /\ ncalls < MaxCalls
    /\ \E name \in NegativeNames, b \in NegativeBounds :
         IF name \in DOMAIN circuit.variables
         THEN Raises("input", circuit, <<name, b[1], b[2]>>)
         ELSE LET id == Len(circuit.objs) + 1
                  r  == [circuit EXCEPT
                            !.objs = Append(@, BoundedIntVar(name, b[1], b[2], 0)),
                            !.variables = Put(@, name, id),
                            !.inputs = Append(@, id),
                            !.bound_types = @ \cup {b}]
              IN  Returns("input", r, <<id>>, <<name, b[1], b[2]>>)

\* The assignments that give every input an end of its declared interval.
Corners(c) ==
    { v \in Assignments(c) :
        \A k \in 1..Len(c.inputs) :
            v[k] \in { c.objs[c.inputs[k]].min_bound, c.objs[c.inputs[k]].max_bound } }

\* simulate(values) on the circuit built so far, with one value per input.
Replay ==
    /\ gen = NoGenerator
    /\ \E values \in Corners(circuit) : Simulates(values, <<>>)

NextSim ==
    \/ Next
    \/ InputNegative
    \/ Replay

SpecSim == Init /\ [][NextSim]_vars

(***************************************************************************)
(* C25: for every circuit and every assignment of the inputs within their  *)
(* declared bounds, the value the simulator computes for each operation    *)
(* result lies within the bounds of the result variable; for DIV and REM   *)
(* whenever the interval of the divisor does not contain zero.             *)
(***************************************************************************)
\* The interval of the divisor of operation i contains zero.
DivisorMayBeZero(i) ==
    /\ circuit.operations[i].op_type \in { "DIV", "REM" }
    /\ 0 \in circuit.objs[circuit.operations[i].operands[2]].min_bound
               .. circuit.objs[circuit.operations[i].operands[2]].max_bound

\* The value the replay has for the result of operation i right after it
\* has replayed that operation lies within the bounds of the result.
ValueInBounds(values, i) ==
    LET run == sim_ops(circuit, values, i)
        res == circuit.objs[circuit.operations[i].result]
    IN  run.ok => run.env[res.name] \in res.min_bound .. res.max_bound

C25_BoundSoundness ==
    \A values \in Assignments(circuit) :
        \A i \in 1..Len(circuit.operations) :
            ~DivisorMayBeZero(i) => ValueInBounds(values, i)

\* The names of the variables are pairwise distinct.
DistinctNames ==
    \A x, y \in 1..Len(circuit.objs) :
        circuit.objs[x].name = circuit.objs[y].name => x = y

\* The same statement for circuits of pairwise distinct names whose DIVs
\* and REMs have a divisor interval above zero.
C25_BoundSoundnessPositiveDivisor ==
    \A values \in Assignments(circuit) :
        \A i \in 1..Len(circuit.operations) :
            (/\ DistinctNames
             /\ circuit.operations[i].op_type \in { "DIV", "REM" }
                  => circuit.objs[circuit.operations[i].operands[2]].min_bound > 0)
            => ValueInBounds(values, i)

\* The same statement for circuits of pairwise distinct names.
C25_BoundSoundnessDistinctNames ==
    DistinctNames => C25_BoundSoundness

(***************************************************************************)
(* C26: in felt252 output, for every circuit that passes the legality      *)
(* check and has only ADD, SUB, MUL and REDUCE operations, every name a    *)
(* statement reads is a parameter, a constant binding or the result of an  *)
(* earlier statement, and every ADD/SUB/MUL requested by a builder call    *)
(* has a statement.                                                        *)
(***************************************************************************)
\* The names bound before statement k of the body.
BoundBefore(k) ==
    { Text.function.params[j] : j \in 1..Len(Text.function.params) }
        \cup { Text.function.bindings[j].name : j \in 1..Len(Text.function.bindings) }
        \cup { Text.function.body[j].name : j \in 1..(k - 1) }

C26_NamesBound ==
    Compiled("felt252") =>
        /\ \A k \in 1..Len(Text.function.body) :
              { Text.function.body[k].left, Text.function.body[k].right }
                  \subseteq BoundBefore(k)
        /\ \A k \in 1..Len(Text.function.reductions) :
              Text.function.reductions[k].src
                  \in BoundBefore(Len(Text.function.body) + 1)
        /\ \A i \in 1..Len(circuit.operations) :
              (circuit.operations[i].op_type \in { "ADD", "SUB", "MUL" }
                    /\ ~SynthesizedShift(i))
                 => \E k \in 1..Len(Text.function.body) :
                       Text.function.body[k].name = ResultName(i)

\* The same statement for the circuits in which no operation reads the
\* result of a REDUCE or a constant() variable of an unregistered value,
\* and no output is a constant() variable.
C26_NamesBoundNoReduceRead ==
    (/\ \A i \in 1..Len(circuit.operations) :
          \A k \in 1..Len(circuit.operations[i].operands) :
             LET x == circuit.operations[i].operands[k]
                 v == circuit.objs[x]
             IN  /\ v.source # 0 => circuit.operations[v.source].op_type # "REDUCE"
                 /\ v.source = 0 =>
                       \/ \E j \in 1..Len(circuit.inputs) : circuit.inputs[j] = x
                       \/ is_registered(circuit, x)
     /\ \A k \in 1..Len(circuit.outputs) :
          circuit.objs[circuit.outputs[k]].source = 0
             => \E j \in 1..Len(circuit.inputs) : circuit.inputs[j] = circuit.outputs[k])
    => C26_NamesBound

(***************************************************************************)
(* C27: in bounded-mode output every constant identifier the body          *)
(* references, in the plain x_const form or in the non-zero nz_x form,     *)
(* has a matching declaration in the constant section.                     *)
(***************************************************************************)
\* The names the constant section declares.
DeclaredConstants ==
    { Text.constants[k].name : k \in 1..Len(Text.constants) }

\* The constant identifiers statement k of the body references: the
\* divisor of a bounded_int_div_rem, and the x_const operands of an
\* add, sub or mul.
ConstantsRead(k) ==
    LET line == Text.function.body[k]
    IN  IF line.fn = "bounded_int_div_rem"
        THEN { line.args[2] }
        ELSE { line.args[j] : j \in 1..Len(line.args) }
                \cap { lower(circuit, v) \o "_const" : v \in DOMAIN circuit.constants }

C27_ConstantsDeclared ==
    Compiled("bounded") =>
        \A k \in 1..Len(Text.function.body) :
            ConstantsRead(k) \subseteq DeclaredConstants

\* The same statement for the circuits in which every REDUCE modulus and
\* every DIV divisor is a registered singleton.
C27_ConstantsDeclaredRegisteredDivisors ==
    (\A i \in 1..Len(circuit.operations) :
        /\ circuit.operations[i].op_type = "REDUCE"
              => op_modulus(circuit, circuit.operations[i]) \in DOMAIN circuit.constants
        /\ circuit.operations[i].op_type \in { "DIV", "REM" }
              => registered_divisor(circuit, circuit.operations[i].operands[2]))
    => C27_ConstantsDeclared

(***************************************************************************)
(* Building a circuit with an input between the field prime and the limit  *)
(* of the legality check, and compiling it.  STARK is the prime            *)
(* 2**251 + 17 * 2**192 + 1 at the scale of limit: above limit / 2 and     *)
(* DefaultMaxBound, below limit.                                           *)
(***************************************************************************)
STARK == 2097152 + 17 * 16 + 1

NearPrimeNames == { "p" }
NearPrimeBounds == { <<0, 3000000>>, <<-1500000, 1500000>> }

InputNearPrime ==
    /\ ncalls < MaxCalls
    /\ \E name \in NearPrimeNames, b \in NearPrimeBounds :
         IF name \in DOMAIN circuit.variables
         THEN Raises("input", circuit, <<name, b[1], b[2]>>)
         ELSE LET id == Len(circuit.objs) + 1
                  r  == [circuit EXCEPT
                            !.objs = Append(@, BoundedIntVar(name, b[1], b[2], 0)),
                            !.variables = Put(@, name, id),
                            !.inputs = Append(@, id),
                            !.bound_types = @ \cup {b}]
              IN  Returns("input", r, <<id>>, <<name, b[1], b[2]>>)

\* compile(mode="felt252")
NativeModes == { "felt252" }

CompileNative ==
    \E mode \in NativeModes : Compiles(compile(circuit, mode), mode)

\* The calls of the builder that field-native mode takes, without mul, and
\* compiling in that mode.
NextNative ==
    \/ Input
    \/ InputNearPrime
    \/ Constant
    \/ RegisterConstant
    \/ Add
    \/ Sub
    \/ Reduce
    \/ Output
    \/ CompileNative

SpecNative == Init /\ [][NextNative]_vars

(***************************************************************************)
(* C28: for every circuit that passes the felt252 legality check, every    *)
(* variable's bound magnitude and the terminal shifted range, SHIFT plus   *)
(* the largest max_bound of all variables, are smaller than the field      *)
(* prime, so that no emitted addition, subtraction or multiplication       *)
(* wraps around the field.                                                 *)
(***************************************************************************)
ShiftedMax ==
    Text.constants.SHIFT
        + max({ circuit.objs[v].max_bound : v \in 1..Len(circuit.objs) })

C28_BelowPrime ==
    Compiled("felt252") =>
        /\ \A v \in 1..Len(circuit.objs) : Magnitude(circuit.objs[v]) < STARK
        /\ ShiftedMax < STARK

\* The same statement with the limit of the legality check in the place
\* of the prime, for the magnitudes of the variables of the name table.
C28_TableBelowLimit ==
    Compiled("felt252") =>
        \A v \in table_vars(circuit) : Magnitude(circuit.objs[v]) < limit

\* A compiled circuit every variable of which has a magnitude below the
\* prime, and whose shifted range reaches it.
C28_ShiftedRangeReachesPrime ==
    /\ Compiled("felt252")
    /\ \A v \in 1..Len(circuit.objs) : Magnitude(circuit.objs[v]) < STARK
    /\ ShiftedMax >= STARK

(***************************************************************************)
(* C29: in bounded-mode output no two type declarations share a name and   *)
(* no two helper impl declarations share a name, also for circuits that    *)
(* both reduce and div_rem by the modulus, and for a singleton bound pair  *)
(* equal to a registered constant.                                         *)
(***************************************************************************)
\* The declarations of the sequence have pairwise distinct names.
UniqueNames(decls) ==
    \A i, j \in 1..Len(decls) : decls[i].name = decls[j].name => i = j

C29_TypesUnique == Compiled("bounded") => UniqueNames(Text.types)

C29_ImplsUnique == Compiled("bounded") => UniqueNames(Text.impls)

C29_UniqueDeclarations == C29_TypesUnique /\ C29_ImplsUnique

\* Declaring inputs, registering constants and reducing, then one div_rem
\* by a registered value given as an integer as the call after the last of
\* the MaxCalls calls, and compiling.
DivRemLast ==
    /\ ncalls = MaxCalls
    /\ \E a \in handles, b \in RegValues :
         LET r == div_rem(circuit, a, b, TRUE)
         IN  IF r.raised
             THEN Raises("div_rem", r.c, <<a, b, TRUE>>)
             ELSE Returns("div_rem", r.c, r.ret, <<a, b, TRUE>>)

NextDecl ==
    \/ Input
    \/ RegisterConstant
    \/ Reduce
    \/ DivRemLast
    \/ Compile

SpecDecl == Init /\ [][NextDecl]_vars

\* A compiled circuit with a REDUCE by the modulus and a DIV by the
\* modulus of the same operand.
C29_ReduceAndDivByModulus ==
    /\ Compiled("bounded")
    /\ \E i, j \in 1..Len(circuit.operations) :
          /\ circuit.operations[i].op_type = "REDUCE"
          /\ op_modulus(circuit, circuit.operations[i]) = circuit.modulus
          /\ circuit.operations[j].op_type = "DIV"
          /\ circuit.operations[j].operands[1] = circuit.operations[i].operands[1]
          /\ bounds(circuit, circuit.operations[j].operands[2])
                = <<circuit.modulus, circuit.modulus>>
    /\ ~UniqueNames(Text.impls)
    /\ UniqueNames(Text.types)

(***************************************************************************)
(* C30: for every circuit built through the builder API and every input    *)
(* vector with one value per input, simulate has a value for every         *)
(* operand at the moment the operation using it is replayed, also for a    *)
(* singleton made by constant() whose value was never registered: the      *)
(* replay never stops on a missing value.                                  *)
(***************************************************************************)
\* The replay of values stops at some operation on an operand name that
\* env does not hold.
MissingOperand(values) ==
    \E i \in 1..Len(circuit.operations) :
        LET prev == sim_ops(circuit, values, i - 1)
            op   == circuit.operations[i]
        IN  /\ prev.ok
            /\ \E k \in 1..Len(op.operands) :
                  circuit.objs[op.operands[k]].name \notin DOMAIN prev.env

C30_NoMissingValue ==
    (last.call = "simulate" /\ Len(last.args[1]) = Len(circuit.inputs))
        => ~MissingOperand(last.args[1])

\* The same statement for the circuits in which every operand that no
\* operation produced is an input or a singleton of a registered value.
C30_NoMissingValueRegistered ==
    (\A i \in 1..Len(circuit.operations) :
        \A k \in 1..Len(circuit.operations[i].operands) :
            LET x == circuit.operations[i].operands[k]
            IN  circuit.objs[x].source = 0 =>
                   \/ \E j \in 1..Len(circuit.inputs) : circuit.inputs[j] = x
                   \/ is_registered(circuit, x))
    => C30_NoMissingValue

====
